---- MODULE Spec2Model ----
(***************************************************************************)
(* agentsandbox: container naming / identity, port validation, image tag   *)
(* and the start / create / resume lifecycle, modelled from the Go source. *)
(*                                                                         *)
(* Strings are sequences of one-character strings, so that the byte-level  *)
(* operations of the code (Split, HasPrefix, TrimRight, Atoi, "%d", the    *)
(* byte-wise string comparison of Go) are computed and not assumed.        *)
(***************************************************************************)
EXTENDS Integers, Sequences, FiniteSets, TLC

(***************************************************************************)
(* Bytes and strings                                                       *)
(***************************************************************************)

\* The characters used by the model, in byte (ASCII) order.
Ascii ==
    << " ", "+", "-", ".", "/",
       "0", "1", "2", "3", "4", "5", "6", "7", "8", "9",
       ":", "@",
       "A", "B", "C", "D", "E", "F", "G", "H", "I", "J", "K", "L", "M",
       "N", "O", "P", "Q", "R", "S", "T", "U", "V", "W", "X", "Y", "Z",
       "[", "]", "_",
       "a", "b", "c", "d", "e", "f", "g", "h", "i", "j", "k", "l", "m",
       "n", "o", "p", "q", "r", "s", "t", "u", "v", "w", "x", "y", "z" >>

Digits == << "0", "1", "2", "3", "4", "5", "6", "7", "8", "9" >>

UpperSeq == SubSeq(Ascii, 18, 43)

LowerSeq == SubSeq(Ascii, 47, 72)

Range(f) == { f[i] : i \in DOMAIN f }

DigitSet == Range(Digits)

UpperSet == Range(UpperSeq)

LowerSet == Range(LowerSeq)

\* Position of a character in byte order: Go compares strings byte by byte.
OrdTable == [ c \in Range(Ascii) |-> CHOOSE i \in DOMAIN Ascii : Ascii[i] = c ]

Ord(c) == OrdTable[c]

\* unicode.ToLower on one ASCII character.
LowerTable ==
    [ c \in Range(Ascii) |->
        IF c \in UpperSet
        THEN LowerSeq[CHOOSE i \in DOMAIN UpperSeq : UpperSeq[i] = c]
        ELSE c ]

ToLowerChar(c) == LowerTable[c]

\* strings.ToLower
ToLower(s) == [ i \in DOMAIN s |-> ToLowerChar(s[i]) ]

\* strings.HasPrefix
HasPrefix(s, p) == Len(p) <= Len(s) /\ SubSeq(s, 1, Len(p)) = p

\* strings.HasSuffix
HasSuffix(s, p) == Len(p) <= Len(s) /\ SubSeq(s, Len(s) - Len(p) + 1, Len(s)) = p

\* strings.Contains
Contains(s, sub) ==
    \E i \in 1..(Len(s) - Len(sub) + 1) : SubSeq(s, i, i + Len(sub) - 1) = sub

\* strings.Index for a one-character needle: 1-based position, 0 when absent
\* (Go: 0-based, -1 when absent).
IndexChar(s, c) ==
    IF \E i \in DOMAIN s : s[i] = c
    THEN CHOOSE i \in DOMAIN s : s[i] = c /\ \A j \in 1..(i - 1) : s[j] /= c
    ELSE 0

\* strings.Count for a one-character needle.
CountChar(s, c) == Cardinality({ i \in DOMAIN s : s[i] = c })

\* strings.ReplaceAll(s, old, new) for one-character old and new.
ReplaceAllChar(s, old, new) == [ i \in DOMAIN s |-> IF s[i] = old THEN new ELSE s[i] ]

\* The subsequence of s of the characters satisfying Keep.
RECURSIVE FilterChars(_, _)
FilterChars(s, keep) ==
    IF s = << >> THEN << >>
    ELSE IF Head(s) \in keep
         THEN << Head(s) >> \o FilterChars(Tail(s), keep)
         ELSE FilterChars(Tail(s), keep)

\* strings.TrimRight(s, c) for a one-character cutset.
RECURSIVE TrimRightChar(_, _)
TrimRightChar(s, c) ==
    IF s /= << >> /\ s[Len(s)] = c
    THEN TrimRightChar(SubSeq(s, 1, Len(s) - 1), c)
    ELSE s

\* strings.Split(s, sep) for a one-character separator: always at least one
\* part; an empty s gives one empty part.
RECURSIVE Split(_, _)
Split(s, sep) ==
    LET i == IndexChar(s, sep)
    IN  IF i = 0 THEN << s >>
        ELSE << SubSeq(s, 1, i - 1) >> \o Split(SubSeq(s, i + 1, Len(s)), sep)

\* strings.Join
RECURSIVE Join(_, _)
Join(parts, sep) ==
    IF parts = << >> THEN << >>
    ELSE IF Len(parts) = 1 THEN parts[1]
    ELSE parts[1] \o sep \o Join(Tail(parts), sep)

\* Go's < on strings: byte-wise lexicographic order.
RECURSIVE StrLess(_, _)
StrLess(a, b) ==
    IF b = << >> THEN FALSE
    ELSE IF a = << >> THEN TRUE
    ELSE IF Head(a) /= Head(b) THEN Ord(Head(a)) < Ord(Head(b))
    ELSE StrLess(Tail(a), Tail(b))

DigitValue(c) == (CHOOSE i \in DOMAIN Digits : Digits[i] = c) - 1

IsAllDigits(s) == \A i \in DOMAIN s : s[i] \in DigitSet

\* The value of a digit string, saturating at cap + 1 (enough to decide any
\* comparison against numbers up to cap without overflowing).
RECURSIVE DecimalValue(_, _, _)
DecimalValue(s, acc, cap) ==
    IF s = << >> THEN acc
    ELSE LET v == acc * 10 + DigitValue(Head(s))
         IN  DecimalValue(Tail(s), IF v > cap THEN cap + 1 ELSE v, cap)

\* fmt.Sprintf("%d", n) for n >= 0.
RECURSIVE Itoa(_)
Itoa(n) ==
    IF n < 10 THEN << Digits[n + 1] >>
    ELSE Itoa(n \div 10) \o << Digits[(n % 10) + 1] >>

\* k copies of the character c.
Repeat(c, k) == [ i \in 1..k |-> c ]

\* All strings over alphabet of length at most n.
StringsUpTo(alphabet, n) == UNION { [1..k -> alphabet] : k \in 0..n }

(***************************************************************************)
(* Naming: Sanitize (internal/container/manager.go)                        *)
(***************************************************************************)

\* The truncation length of Sanitize.
SanitizeMaxLen == 50

\* The characters the regexp [^a-zA-Z0-9\-] leaves in place.
SafeChars == LowerSet \cup UpperSet \cup DigitSet \cup { "-" }

\* A plausible slip: trailing hyphens trimmed before truncating.
SanitizeTrimFirst(s) ==
    LET replaced == ReplaceAllChar(ReplaceAllChar(s, " ", "-"), "_", "-")
        lowered  == ToLower(FilterChars(replaced, SafeChars))
        trimmed  == TrimRightChar(lowered, "-")
    IN  IF Len(trimmed) > SanitizeMaxLen
        THEN SubSeq(trimmed, 1, SanitizeMaxLen)
        ELSE trimmed

\* A plausible slip: the lowercase step left out.
SanitizeNoLower(s) ==
    LET replaced == ReplaceAllChar(ReplaceAllChar(s, " ", "-"), "_", "-")
        stripped == FilterChars(replaced, SafeChars)
        cut      == IF Len(stripped) > SanitizeMaxLen
                    THEN SubSeq(stripped, 1, SanitizeMaxLen)
                    ELSE stripped
    IN  TrimRightChar(cut, "-")

Sanitize(s) ==
    LET replaced == ReplaceAllChar(ReplaceAllChar(s, " ", "-"), "_", "-")
        stripped == FilterChars(replaced, SafeChars)
        lowered  == ToLower(stripped)
        cut      == IF Len(lowered) > SanitizeMaxLen
                    THEN SubSeq(lowered, 1, SanitizeMaxLen)
                    ELSE lowered
    IN  TrimRightChar(cut, "-")

(***************************************************************************)
(* Agents (internal/config)                                                *)
(***************************************************************************)

AgentClaude == "claude"

AgentGemini == "gemini"

AgentCodex == "codex"

AgentQwen == "qwen"

AgentCursor == "cursor"

\* AllAgents, in the order the code iterates.
AllAgents == << AgentClaude, AgentGemini, AgentCodex, AgentQwen, AgentCursor >>

AgentSet == Range(AllAgents)

\* string(agent): the identifier's characters.
AgentChars(a) ==
    CASE a = AgentClaude -> << "c", "l", "a", "u", "d", "e" >>
      [] a = AgentGemini -> << "g", "e", "m", "i", "n", "i" >>
      [] a = AgentCodex  -> << "c", "o", "d", "e", "x" >>
      [] a = AgentQwen   -> << "q", "w", "e", "n" >>
      [] a = AgentCursor -> << "c", "u", "r", "s", "o", "r" >>

\* Agent.Command: the executable name.
Command(a) ==
    CASE a = AgentClaude -> << "c", "l", "a", "u", "d", "e" >>
      [] a = AgentGemini -> << "g", "e", "m", "i", "n", "i" >>
      [] a = AgentCodex  -> << "c", "o", "d", "e", "x" >>
      [] a = AgentQwen   -> << "q", "w", "e", "n" >>
      [] a = AgentCursor ->
           << "c", "u", "r", "s", "o", "r", "-", "a", "g", "e", "n", "t" >>

\* The literal "agent-".
AgentPrefix == << "a", "g", "e", "n", "t", "-" >>

\* The literal "unknown".
Unknown == << "u", "n", "k", "n", "o", "w", "n" >>

\* The result of FromContainerName when no agent is recognised: ("", false).
NoAgent == [ agent |-> "", ok |-> FALSE ]

\* First agent of the list, from position i on, whose command token follows.
RECURSIVE FirstAgentFrom(_, _)
FirstAgentFrom(rest, i) ==
    IF i > Len(AllAgents) THEN NoAgent
    ELSE IF HasPrefix(rest, Command(AllAgents[i]) \o << "-" >>)
         THEN [ agent |-> AllAgents[i], ok |-> TRUE ]
         ELSE FirstAgentFrom(rest, i + 1)

\* A plausible slip: the agent token looked for at the start of the whole
\* name, the "agent-" prefix not stripped.
FromContainerNameNoTrim(name) ==
    IF ~HasPrefix(name, AgentPrefix) THEN NoAgent
    ELSE FirstAgentFrom(name, 1)

FromContainerName(name) ==
    IF ~HasPrefix(name, AgentPrefix) THEN NoAgent
    ELSE FirstAgentFrom(SubSeq(name, Len(AgentPrefix) + 1, Len(name)), 1)

(***************************************************************************)
(* Naming: branch, container name, project name                            *)
(***************************************************************************)

\* The outcome of `git rev-parse --abbrev-ref HEAD` when it fails.
GitFails == [ ok |-> FALSE, out |-> << >> ]

GitSays(branch) == [ ok |-> TRUE, out |-> branch ]

\* filepath.Base on a slash-separated path.
Base(path) ==
    IF path = << >> THEN << "." >>
    ELSE LET stripped == TrimRightChar(path, "/")
         IN  IF stripped = << >> THEN << "/" >>
             ELSE LET parts == Split(stripped, "/")
                  IN  parts[Len(parts)]

\* GetCurrentBranch, given what git answers in the directory (the code trims
\* the surrounding white space of the output, which the model's outputs do
\* not carry).
GetCurrentBranch(git) == IF ~git.ok THEN Unknown ELSE Sanitize(git.out)

GenerateContainerName(dir, agent, git, now) ==
    AgentPrefix \o Sanitize(Command(agent)) \o << "-" >> \o Sanitize(Base(dir))
        \o << "-" >> \o GetCurrentBranch(git) \o << "-" >> \o Itoa(now)

\* The agent segments ExtractProjectName knows.
KnownAgentSegments == { AgentChars(a) : a \in AgentSet }

\* The shortest last segment ExtractProjectName takes for a timestamp.
MinTimestampLen == 6

ExtractProjectName(name) ==
    IF ~HasPrefix(name, AgentPrefix) THEN Unknown
    ELSE LET parts == Split(name, "-")
             n     == Len(parts)
         IN  IF n < 4 THEN Unknown
             ELSE IF ~IsAllDigits(parts[n]) \/ Len(parts[n]) < MinTimestampLen
                  THEN Unknown
             ELSE IF parts[2] \in KnownAgentSegments /\ n - 2 >= 3
                  THEN Join(SubSeq(parts, 3, n - 2), << "-" >>)
             ELSE Unknown

(***************************************************************************)
(* Port mappings: validatePortMapping (internal/container/runtime.go)      *)
(***************************************************************************)

\* The lowest valid port number.
MinPort == 1

\* The highest valid port number.
MaxPort == 65535

\* strconv.Atoi: an optional sign, then at least one digit and digits only.
\* The value saturates above MaxPort, where only "out of range" is decided.
Atoi(s) ==
    LET signed == s /= << >> /\ s[1] \in { "+", "-" }
        body   == IF signed THEN Tail(s) ELSE s
    IN  IF body = << >> \/ ~IsAllDigits(body)
        THEN [ ok |-> FALSE, value |-> 0 ]
        ELSE LET v == DecimalValue(body, 0, MaxPort)
             IN  [ ok |-> TRUE, value |-> IF signed /\ s[1] = "-" THEN -v ELSE v ]

\* The validatePort closure: nil error exactly when the text is an integer
\* within the port range.
validatePort(portStr) ==
    LET n == Atoi(portStr)
    IN  n.ok /\ n.value >= MinPort /\ n.value <= MaxPort

HexSet == DigitSet \cup { "a", "b", "c", "d", "e", "f", "A", "B", "C", "D", "E", "F" }

\* net.ParseIP on a dotted quad: four fields of one to three digits, each at
\* most 255 and without a leading zero.
ParseIPv4(s) ==
    LET fields == Split(s, ".")
    IN  /\ Len(fields) = 4
        /\ \A i \in 1..4 :
              /\ fields[i] /= << >>
              /\ Len(fields[i]) <= 3
              /\ IsAllDigits(fields[i])
              /\ DecimalValue(fields[i], 0, 255) <= 255
              /\ (Len(fields[i]) > 1 => fields[i][1] /= "0")

\* net.ParseIP on a colon form: groups of one to four hex digits, the last
\* possibly a dotted quad, at most one "::", eight groups in all when there
\* is no "::" and fewer with it.
ParseIPv6(s) ==
    LET groups   == Split(s, ":")
        n        == Len(groups)
        filled   == { i \in 1..n : groups[i] /= << >> }
        pairs    == { i \in 1..(Len(s) - 1) : s[i] = ":" /\ s[i + 1] = ":" }
        quadLast == n > 0 /\ Contains(groups[n], << "." >>)
        count    == Cardinality(filled) + (IF quadLast THEN 1 ELSE 0)
    IN  /\ Contains(s, << ":" >>)
        /\ Cardinality(pairs) <= 1
        /\ (s[1] = ":" => 1 \in pairs)
        /\ (s[Len(s)] = ":" => (Len(s) - 1) \in pairs)
        /\ \A i \in filled :
              IF i = n /\ quadLast
              THEN ParseIPv4(groups[i])
              ELSE Len(groups[i]) <= 4 /\ \A j \in DOMAIN groups[i] : groups[i][j] \in HexSet
        /\ IF pairs = { } THEN count = 8 ELSE count <= 7

\* net.ParseIP(s) /= nil
ParseIP(s) ==
    IF Contains(s, << ":" >>) THEN ParseIPv6(s)
    ELSE ParseIPv4(s)

\* The unbracketed branch of validatePortMapping: the switch on the number of
\* colon-separated parts.
validateUnbracketed(portSpec) ==
    LET parts == Split(portSpec, ":")
    IN  CASE Len(parts) = 1 -> validatePort(parts[1])
          [] Len(parts) = 2 -> validatePort(parts[1]) /\ validatePort(parts[2])
          [] Len(parts) = 3 ->
                ParseIP(parts[1]) /\ validatePort(parts[2]) /\ validatePort(parts[3])
          [] OTHER -> FALSE

\* The bracketed branch of validatePortMapping: "[" ip "]" ":" host ":" container.
validateBracketed(portSpec) ==
    LET closeBracket == IndexChar(portSpec, "]")
    IN  IF closeBracket = 0 THEN FALSE
        ELSE LET ipStr     == SubSeq(portSpec, 2, closeBracket - 1)
                 remainder == SubSeq(portSpec, closeBracket + 1, Len(portSpec))
             IN  IF ~ParseIP(ipStr) THEN FALSE
                 ELSE IF ~HasPrefix(remainder, << ":" >>) THEN FALSE
                 ELSE LET portParts == Split(Tail(remainder), ":")
                      IN  /\ Len(portParts) = 2
                          /\ validatePort(portParts[1])
                          /\ validatePort(portParts[2])

\* validatePortMapping(portSpec) = nil
validatePortMapping(portSpec) ==
    IF portSpec = << >> THEN FALSE
    ELSE IF HasPrefix(portSpec, << "[" >>) THEN validateBracketed(portSpec)
    ELSE validateUnbracketed(portSpec)

(***************************************************************************)
(* Languages and the image tag (internal/language/detector.go)             *)
(***************************************************************************)

LanguageRust == "rust"

LanguageNodeJS == "nodejs"

LanguagePython == "python"

LanguageGo == "go"

LanguagePHP == "php"

LanguageRuby == "ruby"

Languages ==
    { LanguageRust, LanguageNodeJS, LanguagePython, LanguageGo, LanguagePHP, LanguageRuby }

\* string(l): the identifier's characters.
LanguageChars(l) ==
    CASE l = LanguageRust   -> << "r", "u", "s", "t" >>
      [] l = LanguageNodeJS -> << "n", "o", "d", "e", "j", "s" >>
      [] l = LanguagePython -> << "p", "y", "t", "h", "o", "n" >>
      [] l = LanguageGo     -> << "g", "o" >>
      [] l = LanguagePHP    -> << "p", "h", "p" >>
      [] l = LanguageRuby   -> << "r", "u", "b", "y" >>

\* The literal "base".
BaseTag == << "b", "a", "s", "e" >>

\* x put into the sorted sequence of strings at its place.
RECURSIVE InsertSorted(_, _)
InsertSorted(x, sorted) ==
    IF sorted = << >> THEN << x >>
    ELSE IF StrLess(x, Head(sorted)) THEN << x >> \o sorted
    ELSE << Head(sorted) >> \o InsertSorted(x, Tail(sorted))

\* sort.Slice with sorted[i] < sorted[j] on strings: the outcome for a total
\* order, where equal elements are indistinguishable.
RECURSIVE SortStrings(_)
SortStrings(strs) ==
    IF strs = << >> THEN << >>
    ELSE InsertSorted(Head(strs), SortStrings(Tail(strs)))

\* A plausible slip: the names joined in the order given, not sorted.
GenerateImageTagUnsorted(languages) ==
    IF Len(languages) = 0 THEN BaseTag
    ELSE Join([ i \in DOMAIN languages |-> LanguageChars(languages[i]) ], << "-" >>)

GenerateImageTag(languages) ==
    IF Len(languages) = 0 THEN BaseTag
    ELSE Join(SortStrings([ i \in DOMAIN languages |-> LanguageChars(languages[i]) ]),
              << "-" >>)

(***************************************************************************)
(* Containers: FindExistingContainer, BuildDockerImage, CreateContainer    *)
(***************************************************************************)

\* filepath.Join(dir, name) for a clean dir and a plain file name.
PathJoin(dir, name) ==
    IF dir = << "/" >> THEN dir \o name ELSE dir \o << "/" >> \o name

\* The last "-" segment of a container name.
LastPart(name) == LET parts == Split(name, "-") IN parts[Len(parts)]

\* The name prefix FindExistingContainer looks for.
FindPattern(dir, agent, git) ==
    AgentPrefix \o Sanitize(Command(agent)) \o << "-" >> \o Sanitize(Base(dir))
        \o << "-" >> \o GetCurrentBranch(git) \o << "-" >>

Matching(names, pattern) == { n \in names : HasPrefix(n, pattern) }

\* What FindExistingContainer can return on the names docker lists: the
\* first of the matching names once sorted by last segment, descending, in
\* Go's string order.  sort.Slice is not stable, so among names with equal
\* last segments any can come first.  The empty name when nothing matches.
FindExistingContainer(names, dir, agent, git) ==
    LET matching == Matching(names, FindPattern(dir, agent, git))
    IN  IF matching = {} THEN { << >> }
        ELSE { n \in matching :
                 \A o \in matching : ~StrLess(LastPart(n), LastPart(o)) }

\* A plausible slip: the existing container found but not resumed.
StartRouteAlwaysCreate(existing) == "build"

\* runStart after FindExistingContainer: an existing container is resumed
\* and the function returns; otherwise a container is created.
StartRoute(existing) == IF existing /= << >> THEN "resume" ELSE "build"

\* The marker files of each language.
LanguageMarkers(l) ==
    CASE l = LanguageRust   -> { << "C", "a", "r", "g", "o", ".", "t", "o", "m", "l" >> }
      [] l = LanguageNodeJS -> { << "p", "a", "c", "k", "a", "g", "e", ".", "j", "s", "o", "n" >> }
      [] l = LanguagePython -> { << "r", "e", "q", "u", "i", "r", "e", "m", "e", "n", "t", "s", ".", "t", "x", "t" >>, << "p", "y", "p", "r", "o", "j", "e", "c", "t", ".", "t", "o", "m", "l" >> }
      [] l = LanguageGo     -> { << "g", "o", ".", "m", "o", "d" >> }
      [] l = LanguagePHP    -> { << "c", "o", "m", "p", "o", "s", "e", "r", ".", "j", "s", "o", "n" >> }
      [] l = LanguageRuby   -> { << "G", "e", "m", "f", "i", "l", "e" >> }

\* The languages with a marker file in dir.
DetectedLanguages(dir, files) ==
    { l \in Languages : \E f \in LanguageMarkers(l) : PathJoin(dir, f) \in files }

\* DetectProjectLanguages ranges over a Go map, whose iteration order is
\* not fixed: the detected languages, each once, in any order.
DetectProjectLanguages(dir, files) ==
    LET found == DetectedLanguages(dir, files)
    IN  { q \in [1..Cardinality(found) -> found] :
            \A i, j \in DOMAIN q : i /= j => q[i] /= q[j] }

ImageName(languages) == << "a", "g", "e", "n", "t", "s", "a", "n", "d", "b", "o", "x", "-", "i", "m", "a", "g", "e", ":" >> \o GenerateImageTag(languages)

DockerfilePath == << "/", "t", "m", "p", "/", "D", "o", "c", "k", "e", "r", "f", "i", "l", "e", ".", "a", "g", "e", "n", "t", "s", "a", "n", "d", "b", "o", "x" >>

Event(op, arg) == [ op |-> op, arg |-> arg ]

\* CreateDockerfile: the recipe written to the Dockerfile, the install
\* commands in the order of the languages given and the account of the
\* user.
CreateDockerfile(user, languages) == [ recipe |-> languages, user |-> user ]

\* What docker build -t imageName bakes from a Dockerfile.
Baked(imageName, dockerfile) ==
    [ image |-> imageName, recipe |-> dockerfile.recipe, user |-> dockerfile.user ]

\* A plausible slip: the image built without a look at what docker has.
BuildDockerImageNoCache(languages, images, idOk, buildOk) ==
    LET imageName == ImageName(languages)
        build     == << Event("write", DockerfilePath),
                        Event("docker build", imageName),
                        Event("remove", DockerfilePath) >>
    IN  IF ~idOk
        THEN [ image |-> << >>, err |-> "failed to get host UID", images |-> images,
               events |-> << >> ]
        ELSE IF ~buildOk
        THEN [ image |-> << >>, err |-> "Docker build failed", images |-> images,
               events |-> build ]
        ELSE [ image |-> imageName, err |-> "", images |-> images \cup { imageName },
               events |-> build ]


\* BuildDockerImage: the cached image when docker has it; otherwise the
\* Dockerfile is written, docker build runs, and the Dockerfile is removed.
BuildDockerImage(languages, images, idOk, buildOk) ==
    LET imageName == ImageName(languages)
        inspect   == << Event("docker image inspect", imageName) >>
    IN  IF imageName \in images
        THEN [ image |-> imageName, err |-> "", images |-> images, events |-> inspect ]
        ELSE IF ~idOk
        THEN [ image |-> << >>, err |-> "failed to get host UID", images |-> images,
               events |-> inspect ]
        ELSE IF ~buildOk
        THEN [ image |-> << >>, err |-> "Docker build failed", images |-> images,
               events |-> inspect \o << Event("write", DockerfilePath),
                                        Event("docker build", imageName),
                                        Event("remove", DockerfilePath) >> ]
        ELSE [ image |-> imageName, err |-> "", images |-> images \cup { imageName },
               events |-> inspect \o << Event("write", DockerfilePath),
                                        Event("docker build", imageName),
                                        Event("remove", DockerfilePath) >> ]

\* settings.SkipPermissionFlags[string(agent)] with the default settings.
SkipPermissionFlags(agent) ==
    IF agent = AgentClaude THEN << "-", "-", "d", "a", "n", "g", "e", "r", "o", "u", "s", "l", "y", "-", "s", "k", "i", "p", "-", "p", "e", "r", "m", "i", "s", "s", "i", "o", "n", "s" >>
    ELSE IF agent \in AgentSet THEN << "-", "-", "y", "o", "l", "o" >>
    ELSE << >>

\* BuildAgentCommand: the shell command of the session.
BuildAgentCommand(currentDir, agent, agentContinue, skipPermissionFlag) ==
    << "c", "d", " " >> \o currentDir
      \o << " ", "&", "&", " ", "e", "x", "p", "o", "r", "t", " ", "P", "A", "T", "H", "=", "\"", "$", "H", "O", "M", "E", "/", ".", "c", "a", "r", "g", "o", "/", "b", "i", "n", ":", "$", "H", "O", "M", "E", "/", ".", "l", "o", "c", "a", "l", "/", "b", "i", "n", ":", "$", "P", "A", "T", "H", "\"", " ", "&", "&", " " >>
      \o Command(agent)
      \o (IF agentContinue THEN << " ", "-", "-", "c", "o", "n", "t", "i", "n", "u", "e" >> ELSE << >>)
      \o (IF skipPermissionFlag /= << >> THEN << " " >> \o skipPermissionFlag ELSE << >>)

\* AttachToContainer, agent mode: docker exec -w currentDir in the container
\* with the agent command.
AttachToContainer(containerName, currentDir, agent, agentContinue, skipPermissionFlag) ==
    [ container |-> containerName,
      workdir   |-> currentDir,
      command   |-> BuildAgentCommand(currentDir, agent, agentContinue, skipPermissionFlag) ]

\* The -v arguments of docker run: source, target and mode.
WorkspaceMount(dir) == [ src |-> dir, dst |-> dir, mode |-> "rw" ]

NodeModulesVolume(dir) ==
    [ src |-> << >>, dst |-> dir \o << "/", "n", "o", "d", "e", "_", "m", "o", "d", "u", "l", "e", "s" >>, mode |-> "anon" ]

ReadOnlyMount(src, dst) == [ src |-> src, dst |-> dst, mode |-> "ro" ]

PackageJSON == << "p", "a", "c", "k", "a", "g", "e", ".", "j", "s", "o", "n" >>

\* The name os.CreateTemp("", "env-overlay-*") gives its k-th file.
TempPath(k) == << "/", "t", "m", "p", "/", "e", "n", "v", "-", "o", "v", "e", "r", "l", "a", "y", "-" >> \o Itoa(k)

\* The loop over settings.EnvFiles: for every env file that exists in the
\* workspace an empty temporary file is created and mounted read-only over
\* it; when os.CreateTemp fails (tempOk[i] false) the file is passed over
\* without a message.  k counts the temporary files made so far.
RECURSIVE EnvOverlays(_, _, _, _, _, _)
EnvOverlays(envFiles, i, dir, files, tempOk, k) ==
    IF i > Len(envFiles) THEN [ mounts |-> << >>, temps |-> {}, events |-> << >> ]
    ELSE LET envPath == PathJoin(dir, envFiles[i])
         IN  IF envPath \notin files
             THEN EnvOverlays(envFiles, i + 1, dir, files, tempOk, k)
             ELSE IF ~tempOk[i]
             THEN LET rest == EnvOverlays(envFiles, i + 1, dir, files, tempOk, k)
                  IN  [ rest EXCEPT !.events = << Event("CreateTemp failed", envPath) >> \o @ ]
             ELSE LET rest == EnvOverlays(envFiles, i + 1, dir, files, tempOk, k + 1)
                  IN  [ mounts |-> << ReadOnlyMount(TempPath(k), envPath) >> \o rest.mounts,
                        temps  |-> { TempPath(k) } \cup rest.temps,
                        events |-> << Event("CreateTemp", TempPath(k)) >> \o rest.events ]

\* A plausible slip: the additional directory mounted before the overlays.
ComposeMountsExtraEarly(dir, addDir, envFiles, files, tempOk, k) ==
    LET overlays == EnvOverlays(envFiles, 1, dir, files, tempOk, k)
    IN  [ mounts |-> << WorkspaceMount(dir) >>
                       \o (IF PathJoin(dir, PackageJSON) \in files
                           THEN << NodeModulesVolume(dir) >> ELSE << >>)
                       \o (IF addDir /= << >>
                           THEN << ReadOnlyMount(addDir, addDir) >> ELSE << >>)
                       \o overlays.mounts,
          temps  |-> overlays.temps,
          events |-> overlays.events ]


\* The -v arguments CreateContainer composes, in order: the workspace, the
\* node_modules volume when package.json exists, the env overlays, and the
\* additional directory read-only.
ComposeMounts(dir, addDir, envFiles, files, tempOk, k) ==
    LET overlays == EnvOverlays(envFiles, 1, dir, files, tempOk, k)
    IN  [ mounts |-> << WorkspaceMount(dir) >>
                       \o (IF PathJoin(dir, PackageJSON) \in files
                           THEN << NodeModulesVolume(dir) >> ELSE << >>)
                       \o overlays.mounts
                       \o (IF addDir /= << >>
                           THEN << ReadOnlyMount(addDir, addDir) >> ELSE << >>),
          temps  |-> overlays.temps,
          events |-> overlays.events ]

\* A plausible slip: only the first entry of the list validated.
FirstInvalidPortHeadOnly(ports) ==
    IF ports /= << >> /\ ~validatePortMapping(ports[1]) THEN 1 ELSE 0

\* The position of the entry at which the port loop returns its error: the
\* first entry validatePortMapping rejects; 0 when it rejects none.
FirstInvalidPort(ports) ==
    LET bad == { i \in DOMAIN ports : ~validatePortMapping(ports[i]) }
    IN  IF bad = {} THEN 0 ELSE CHOOSE i \in bad : \A j \in bad : i <= j

\* A plausible slip: the same host port not tried first.
FinalPortSpecNoSamePort(portSpec, busy, freePort) ==
    IF Contains(portSpec, << ":" >>) THEN portSpec
    ELSE IF freePort /= << >> THEN freePort \o << ":" >> \o portSpec
    ELSE portSpec


\* The -p argument for one entry: a bare container port is published on the
\* same host port when isPortAvailable says it is free, else on the port
\* findAvailablePort returns, else left to docker; a mapping is passed on.
FinalPortSpec(portSpec, busy, freePort) ==
    IF Contains(portSpec, << ":" >>) THEN portSpec
    ELSE IF portSpec \notin busy THEN portSpec \o << ":" >> \o portSpec
    ELSE IF freePort /= << >> THEN freePort \o << ":" >> \o portSpec
    ELSE portSpec

\* The sockets the loop opens for one entry.
PortProbes(portSpec, busy) ==
    IF Contains(portSpec, << ":" >>) THEN << >>
    ELSE IF portSpec \notin busy THEN << Event("listen", portSpec) >>
    ELSE << Event("listen", portSpec), Event("listen", << "0" >>) >>

RECURSIVE ProbeEvents(_, _, _)
ProbeEvents(ports, n, busy) ==
    IF n = 0 THEN << >>
    ELSE ProbeEvents(ports, n - 1, busy) \o PortProbes(ports[n], busy)

\* The port loop of CreateContainer: entries are taken in order; the first
\* one that fails validation ends the function with an error.
PortArgsUntil(ports, busy, freePort, bad, done) ==
    [ err     |-> IF bad = 0 THEN "" ELSE "invalid port mapping",
      publish |-> [ i \in 1..done |-> FinalPortSpec(ports[i], busy, freePort[i]) ],
      events  |-> ProbeEvents(ports, done, busy) ]

\* The entries the loop gets through when it stops at entry bad.
PortsDone(ports, bad) == IF bad = 0 THEN Len(ports) ELSE bad - 1

PortArgs(ports, busy, freePort) ==
    PortArgsUntil(ports, busy, freePort, FirstInvalidPort(ports),
                  PortsDone(ports, FirstInvalidPort(ports)))

(***************************************************************************)
(* State                                                                   *)
(***************************************************************************)

VARIABLES
    sn,     \* Sanitize applied once and twice to an input string
    nm,     \* a container name, generated or given, and what is parsed from it
    pm,     \* a port mapping and the verdict of validatePortMapping on it
    tg,     \* two orderings of one language set and the image tag of each
    docker, \* the docker daemon: its containers and its images
    host,   \* the host: files, settings, busy ports, git branches, clock
    inv     \* the invocations of the tool, one per process

vars == << sn, nm, pm, tg, docker, host, inv >>

\* The variables of the pure-function specifications.
pure == << sn, nm, pm, tg >>

\* The variables of the container life cycle.
life == << docker, host, inv >>

(***************************************************************************)
(* SpecSanitize: Sanitize on bounded inputs                                *)
(***************************************************************************)

\* Longest variable tail of a Sanitize input.
MaxTail == 3

SanAlphabet == { "a", "Z", "7", "-", "_", " ", "@" }

\* Inputs: a run of letters (none, or long enough to bring the tail across
\* the truncation point) followed by every tail over SanAlphabet.
SanPads == { 0, SanitizeMaxLen - 2, SanitizeMaxLen - 1, SanitizeMaxLen }

SanInputs ==
    { Repeat("a", k) \o t : k \in SanPads, t \in StringsUpTo(SanAlphabet, MaxTail) }

SanIdle == [ pc |-> "idle", input |-> << >>, once |-> << >>, twice |-> << >> ]

NmIdle ==
    [ pc |-> "idle", generated |-> FALSE, dir |-> << >>, agent |-> "",
      git |-> GitFails, now |-> 0, name |-> << >>,
      parsed |-> NoAgent, project |-> << >> ]

PmIdle == [ pc |-> "idle", spec |-> << >>, ok |-> FALSE ]

TgIdle == [ pc |-> "idle", first |-> << >>, second |-> << >>,
            firstTag |-> << >>, secondTag |-> << >> ]

\* The processes that can run the tool.
Procs == { "p1", "p2" }

\* The git answer in a directory nobody asked about.
NoGit == [ d \in {} |-> GitFails ]

DockerIdle == [ containers |-> {}, images |-> {}, baked |-> {} ]

\* The Dockerfile path with no file at it.
NoFile == [ recipe |-> << >>, user |-> [ name |-> << >>, uid |-> 0, gid |-> 0 ] ]

HostIdle ==
    [ files |-> {}, temps |-> {}, busy |-> {}, envFiles |-> << >>, git |-> NoGit,
      now |-> 0, runs |-> 0, last |-> << >>, autoRemove |-> 0,
      dockerfile |-> NoFile ]

\* Two users of the host: $USER, id -u and id -g of each.
UserAlice == [ name |-> << "a", "l", "i", "c", "e" >>, uid |-> 1000, gid |-> 1000 ]

UserBob == [ name |-> << "b", "o", "b" >>, uid |-> 1001, gid |-> 1001 ]

Users == { UserAlice, UserBob }

\* No session opened.
NoSession == [ container |-> << >>, workdir |-> << >>, command |-> << >> ]

\* Docker with the image of a workspace built before, by user.
CachedImage(dir, files, user) ==
    LET languages == CHOOSE q \in DetectProjectLanguages(dir, files) : TRUE
    IN  [ containers |-> {},
          images     |-> { ImageName(languages) },
          baked      |-> { Baked(ImageName(languages), CreateDockerfile(user, languages)) } ]

\* An invocation that has not begun.
InvIdle ==
    [ pc |-> "idle", cmd |-> "", agent |-> "", dir |-> << >>, addDir |-> << >>,
      ports |-> << >>,
      cont |-> FALSE, listed |-> FALSE, names |-> {}, pattern |-> << >>,
      existing |-> << >>, git |-> GitFails,
      target |-> << >>, name |-> << >>, languages |-> << >>, image |-> << >>,
      mounts |-> << >>, publish |-> << >>, events |-> << >>, err |-> "",
      flag |-> << >>, session |-> NoSession, user |-> UserAlice ]

PureIdle == sn = SanIdle /\ nm = NmIdle /\ pm = PmIdle /\ tg = TgIdle

LifeIdle ==
    docker = DockerIdle /\ host = HostIdle /\ inv = [ p \in Procs |-> InvIdle ]

SanInit ==
    /\ LifeIdle
    /\ sn \in { [ pc |-> "input", input |-> s, once |-> << >>, twice |-> << >> ] :
                s \in SanInputs }
    /\ nm = NmIdle
    /\ pm = PmIdle
    /\ tg = TgIdle

SanitizeOnce ==
    /\ sn.pc = "input"
    /\ sn' = [ sn EXCEPT !.pc = "once", !.once = Sanitize(sn.input) ]
    /\ UNCHANGED << nm, pm, tg, life >>

SanitizeTwice ==
    /\ sn.pc = "once"
    /\ sn' = [ sn EXCEPT !.pc = "twice", !.twice = Sanitize(sn.once) ]
    /\ UNCHANGED << nm, pm, tg, life >>

SanNext == SanitizeOnce \/ SanitizeTwice

SpecSanitize == SanInit /\ [][SanNext]_vars

\* C6: Sanitize is idempotent: sanitizing a sanitized string changes nothing.
SanitizeIdempotent == sn.pc = "twice" => sn.twice = sn.once

\* An input longer than the limit, cut and then trimmed, sanitized twice.
SanitizeIdempotentWitness ==
    /\ sn.pc = "twice"
    /\ Len(sn.input) > SanitizeMaxLen
    /\ Len(sn.once) < SanitizeMaxLen
    /\ sn.once /= << >>

SanitizedChars == LowerSet \cup DigitSet \cup { "-" }

\* C7 as stated: the output is empty, or starts with a lowercase letter or a
\* digit, holds only lowercase letters, digits and hyphens, is at most 50
\* characters long and does not end in a hyphen.
SanitizeMatchesPattern ==
    sn.pc \in { "once", "twice" } =>
        \/ sn.once = << >>
        \/ /\ sn.once[1] \in LowerSet \cup DigitSet
           /\ \A i \in DOMAIN sn.once : sn.once[i] \in SanitizedChars
           /\ Len(sn.once) <= SanitizeMaxLen
           /\ sn.once[Len(sn.once)] /= "-"

\* C7 amended: the output is empty, or holds only lowercase letters, digits
\* and hyphens, is at most 50 characters long and does not end in a hyphen
\* (it may start with a hyphen).
SanitizeOutputShape ==
    sn.pc \in { "once", "twice" } =>
        \/ sn.once = << >>
        \/ /\ \A i \in DOMAIN sn.once : sn.once[i] \in SanitizedChars
           /\ Len(sn.once) <= SanitizeMaxLen
           /\ sn.once[Len(sn.once)] /= "-"

\* An input whose output differs from it and starts with a hyphen.
SanitizeOutputShapeWitness ==
    /\ sn.pc = "once"
    /\ sn.once /= << >>
    /\ sn.once /= sn.input
    /\ sn.once[1] = "-"
    /\ \E i \in DOMAIN sn.input : sn.input[i] \in UpperSet

(***************************************************************************)
(* SpecNaming: names generated and parsed back                             *)
(***************************************************************************)

\* Working directories.
NamingDirs ==
    { << "/", "w", "/", "a", "p", "p" >>,
      << "/", "w", "/", "m", "y", "-", "a", "p", "p" >>,
      << "/", "w", "/", "M", "y", "_", "A", "p", "p", "/" >>,
      << "/", "w", "/", "@" >>,
      << "/" >> }

\* What git answers: a branch name, or failure outside a repository.
NamingGit ==
    { GitFails,
      GitSays(<< "m", "a", "i", "n" >>),
      GitSays(<< "f", "e", "a", "t", "/", "x", "-", "1" >>),
      GitSays(<< "H", "E", "A", "D" >>) }

\* The first clock value of the model: the last second with a 9-digit
\* Unix time but one.
ClockStart == 999999998

\* How many seconds the clock may advance.
MaxTicks == 3

ClockValues == ClockStart..(ClockStart + MaxTicks)

\* Names given from outside (not generated): the tests' malformed names and
\* names close to well-formed ones.
GivenNames ==
    { << "i", "n", "v", "a", "l", "i", "d", "-", "n", "a", "m", "e" >>,
      << "c", "o", "n", "t", "a", "i", "n", "e", "r", "-" >> \o Command(AgentClaude)
          \o << "-", "m", "y", "p", "r", "o", "j", "e", "c", "t" >>,
      AgentPrefix \o << "m", "y", "p", "r", "o", "j", "e", "c", "t", "-", "m", "a", "i", "n" >>,
      AgentPrefix \o Command(AgentClaude) \o << "-", "1", "2", "3", "4", "5", "6" >>,
      AgentPrefix \o Command(AgentClaude) \o << "-", "p", "-", "m", "-", "1", "2", "3", "4", "5" >>,
      AgentPrefix \o Command(AgentClaude) \o << "-", "p", "-", "m", "-", "1", "2", "3", "4", "5", "x" >>,
      AgentPrefix \o << "b", "o", "t", "-", "p", "-", "m", "-", "1", "2", "3", "4", "5", "6" >>,
      AgentPrefix \o AgentChars(AgentCursor) \o << "-", "p", "-", "m", "-", "1", "2", "3", "4", "5", "6" >>,
      AgentPrefix \o Command(AgentClaude),
      << >> }

NamingInit ==
    /\ LifeIdle
    /\ sn = SanIdle
    /\ pm = PmIdle
    /\ tg = TgIdle
    /\ \/ nm \in { [ NmIdle EXCEPT !.pc = "input", !.dir = d, !.agent = a,
                                   !.git = g, !.now = t ] :
                   d \in NamingDirs, a \in AgentSet, g \in NamingGit, t \in ClockValues }
       \/ nm \in { [ NmIdle EXCEPT !.pc = "named", !.name = n ] : n \in GivenNames }

Generate ==
    /\ nm.pc = "input"
    /\ nm' = [ nm EXCEPT !.pc = "named", !.generated = TRUE,
                         !.name = GenerateContainerName(nm.dir, nm.agent, nm.git, nm.now) ]
    /\ UNCHANGED << sn, pm, tg, life >>

Parse ==
    /\ nm.pc = "named"
    /\ nm' = [ nm EXCEPT !.pc = "parsed",
                         !.parsed = FromContainerName(nm.name),
                         !.project = ExtractProjectName(nm.name) ]
    /\ UNCHANGED << sn, pm, tg, life >>

NamingNext == Generate \/ Parse

SpecNaming == NamingInit /\ [][NamingNext]_vars

\* The name starts with "agent-" followed by a known agent's command token
\* and a hyphen.
HasAgentToken(name) ==
    \E a \in AgentSet : HasPrefix(name, AgentPrefix \o Command(a) \o << "-" >>)

\* C8: the agent parsed from a generated name is the agent it was generated
\* for; a name without the prefix or without a known command token after it
\* parses to not-ok.
AgentRoundTrip ==
    nm.pc = "parsed" =>
        /\ nm.generated => nm.parsed = [ agent |-> nm.agent, ok |-> TRUE ]
        /\ ~HasAgentToken(nm.name) => nm.parsed = NoAgent

\* A name generated for cursor, whose command token holds a hyphen, parsed.
AgentRoundTripWitness ==
    /\ nm.pc = "parsed"
    /\ nm.generated
    /\ nm.agent = AgentCursor
    /\ nm.parsed.ok

\* The structural conditions under which C9 expects "unknown".
Malformed(name) ==
    LET parts == Split(name, "-")
    IN  \/ ~HasPrefix(name, AgentPrefix)
        \/ Len(parts) < 4
        \/ ~IsAllDigits(parts[Len(parts)])
        \/ Len(parts[Len(parts)]) < MinTimestampLen
        \/ parts[2] \notin KnownAgentSegments

\* C9 as stated: the project extracted from a generated name is the
\* sanitized base name of the directory, for every agent and branch; a
\* structurally malformed name gives "unknown".
ProjectRoundTrip ==
    nm.pc = "parsed" =>
        /\ nm.generated => nm.project = Sanitize(Base(nm.dir))
        /\ (~nm.generated /\ Malformed(nm.name)) => nm.project = Unknown

(***************************************************************************)
(* SpecPorts: validatePortMapping on port mappings built from components   *)
(***************************************************************************)

PortTexts ==
    { << "8", "0", "8", "0" >>, << "8", "0" >>, << "1" >>,
      << "6", "5", "5", "3", "5" >>, << "6", "5", "5", "3", "6" >>,
      << "7", "0", "0", "0", "0" >>, << "0" >>, << "-", "1" >>,
      << "a", "b", "c" >>, << >> }

IPTexts ==
    { << "1", "2", "7", ".", "0", ".", "0", ".", "1" >>,
      << "9", "9", "9", ".", "9", "9", "9", ".", "9", "9", "9", ".", "9", "9", "9" >>,
      << "1", ".", "2", ".", "3" >>,
      << ":", ":", "1" >>,
      << "2", "0", "0", "1", ":", "d", "b", "8", ":", ":", "1" >>,
      << "1", ":", "2", ":", "3" >>,
      << "a", "b", "c" >>,
      << >> }

Colon == << ":" >>

\* Every mapping of the shapes PORT, HOST:CONTAINER, IP:HOST:CONTAINER,
\* [IP]:HOST:CONTAINER, and near misses of them.
PortSpecs ==
    PortTexts
    \cup { h \o Colon \o c : h \in PortTexts, c \in PortTexts }
    \cup { ip \o Colon \o h \o Colon \o c :
             ip \in IPTexts, h \in PortTexts, c \in PortTexts }
    \cup { << "[" >> \o ip \o << "]" >> \o Colon \o h \o Colon \o c :
             ip \in IPTexts, h \in PortTexts, c \in PortTexts }
    \cup { << "[" >> \o ip \o << "]" >> \o Colon \o c : ip \in IPTexts, c \in PortTexts }
    \cup { << "[" >> \o ip \o << "]" >> \o h \o Colon \o c :
             ip \in IPTexts, h \in PortTexts, c \in PortTexts }
    \cup { << "[" >> \o ip \o Colon \o c : ip \in IPTexts, c \in PortTexts }
    \cup { << "1", ":", "2", ":", "3", ":", "4" >> }

PortsInit ==
    /\ LifeIdle
    /\ sn = SanIdle
    /\ nm = NmIdle
    /\ tg = TgIdle
    /\ pm \in { [ pc |-> "input", spec |-> s, ok |-> FALSE ] : s \in PortSpecs }

Validate ==
    /\ pm.pc = "input"
    /\ pm' = [ pm EXCEPT !.pc = "validated", !.ok = validatePortMapping(pm.spec) ]
    /\ UNCHANGED << sn, nm, tg, life >>

PortsNext == Validate

SpecPorts == PortsInit /\ [][PortsNext]_vars

\* A port component of the grammar: an integer from 1 to 65535.
IsPort(text) == Atoi(text).ok /\ Atoi(text).value \in MinPort..MaxPort

\* The grammar of C5: PORT, HOST:CONTAINER, IP:HOST:CONTAINER with a
\* parseable IP, or [IPv6]:HOST:CONTAINER.
InPortGrammar(s) ==
    LET parts == Split(s, ":")
    IN  \/ Len(parts) = 1 /\ IsPort(parts[1])
        \/ Len(parts) = 2 /\ IsPort(parts[1]) /\ IsPort(parts[2])
        \/ Len(parts) = 3 /\ ParseIP(parts[1]) /\ IsPort(parts[2]) /\ IsPort(parts[3])
        \/ \E i \in DOMAIN s, j \in DOMAIN s :
              /\ s[1] = "[" /\ s[i] = "]" /\ i + 1 < j /\ s[i + 1] = ":" /\ s[j] = ":"
              /\ ParseIPv6(SubSeq(s, 2, i - 1))
              /\ IsPort(SubSeq(s, i + 2, j - 1))
              /\ IsPort(SubSeq(s, j + 1, Len(s)))

\* C5 as stated: a mapping is accepted exactly when it is in the grammar.
PortGrammarExact ==
    pm.pc = "validated" => (pm.ok <=> InPortGrammar(pm.spec))

(***************************************************************************)
(* SpecTag: GenerateImageTag on two orderings of one language set          *)
(***************************************************************************)

\* The most languages in one detected set.
MaxLangs == 3

\* The sequences over S without repetition, of every length up to n.
Orderings(S, n) ==
    { q \in UNION { [1..k -> S] : k \in 0..n } :
        \A i, j \in DOMAIN q : i /= j => q[i] /= q[j] }

TagInit ==
    /\ LifeIdle
    /\ sn = SanIdle
    /\ nm = NmIdle
    /\ pm = PmIdle
    /\ \E a \in Orderings(Languages, MaxLangs) :
          \E b \in { q \in Orderings(Languages, MaxLangs) : Range(q) = Range(a) } :
             tg = [ TgIdle EXCEPT !.pc = "input", !.first = a, !.second = b ]

TagFirst ==
    /\ tg.pc = "input"
    /\ tg' = [ tg EXCEPT !.pc = "first", !.firstTag = GenerateImageTag(tg.first) ]
    /\ UNCHANGED << sn, nm, pm, life >>

TagSecond ==
    /\ tg.pc = "first"
    /\ tg' = [ tg EXCEPT !.pc = "both", !.secondTag = GenerateImageTag(tg.second) ]
    /\ UNCHANGED << sn, nm, pm, life >>

TagNext == TagFirst \/ TagSecond

SpecTag == TagInit /\ [][TagNext]_vars

\* The tag is the identifiers of the set, each once, in ascending byte
\* order, joined by hyphens.
IsSortedTagOf(tag, langSet) ==
    LET names == Split(tag, "-")
    IN  /\ Range(names) = { LanguageChars(l) : l \in langSet }
        /\ Len(names) = Cardinality(langSet)
        /\ \A i \in 1..(Len(names) - 1) : StrLess(names[i], names[i + 1])

\* C10: two orderings of the same language set give the same tag, which is
\* the sorted identifiers joined by hyphens, and "base" for the empty set.
ImageTagOrderInvariant ==
    tg.pc = "both" =>
        /\ tg.firstTag = tg.secondTag
        /\ IF tg.first = << >>
           THEN tg.firstTag = BaseTag
           ELSE IsSortedTagOf(tg.firstTag, Range(tg.first))

\* Two different orderings of three languages, neither of them sorted.
ImageTagOrderWitness ==
    /\ tg.pc = "both"
    /\ Len(tg.first) = 3
    /\ tg.first /= tg.second
    /\ tg.firstTag /= Join([ i \in DOMAIN tg.first |-> LanguageChars(tg.first[i]) ], << "-" >>)
    /\ tg.secondTag /= Join([ i \in DOMAIN tg.second |-> LanguageChars(tg.second[i]) ], << "-" >>)

(***************************************************************************)
(* Spec: the start flow of the tool (runStart) against docker and the host *)
(***************************************************************************)

\* Invocations the tool is given in one behaviour.
MaxRuns == 3

\* The clock when the first invocation begins: the last second before the
\* Unix time gets its tenth digit.
StartClock == 999999999

\* Seconds that pass in one behaviour.
MaxSeconds == 1

\* Seconds in a minute.
SecondsPerMinute == 60

\* A plausible slip: a container created exactly at the cutoff kept.
AutoRemoveKeepsCutoff(containers, minutes, now) ==
    IF minutes <= 0 THEN containers
    ELSE { c \in containers :
             ~HasPrefix(c.name, AgentPrefix)
               \/ c.created >= now - minutes * SecondsPerMinute }

\* AutoRemoveOldContainers when every docker command succeeds: with
\* minutes > 0, docker rm -f of every "agent-" container not created after
\* now - minutes.  The containers that remain.
AutoRemoveOldContainers(containers, minutes, now) ==
    IF minutes <= 0 THEN containers
    ELSE { c \in containers :
             ~HasPrefix(c.name, AgentPrefix)
               \/ c.created > now - minutes * SecondsPerMinute }

\* The containers one call removes when the inspect of those in skipped
\* fails and every docker rm -f succeeds.
EvictVictims(containers, skipped, minutes, now) ==
    (containers \ skipped) \ AutoRemoveOldContainers(containers \ skipped, minutes, now)

\* The runs of the removal loop over the victims: they are removed in the
\* order of docker's listing, and the first docker rm -f that fails ends the
\* call with the error, the ones before it removed.
EvictRuns(containers, skipped, victims) ==
    { [ containers |-> containers \ Range(q),
        err        |-> IF Range(q) = victims THEN "" ELSE "failed to remove container",
        skipped    |-> skipped,
        removed    |-> [ k \in DOMAIN q |-> q[k].name ] ] :
      q \in Orderings(victims, Cardinality(victims)) }

\* What a call of AutoRemoveOldContainers can do.  docker ps can fail, which
\* ends the call with nothing removed; a container whose docker inspect
\* fails is passed over.
EvictOutcomes(containers, minutes, now) ==
    IF minutes <= 0
    THEN { [ containers |-> containers, err |-> "", skipped |-> {}, removed |-> << >> ] }
    ELSE { [ containers |-> containers, err |-> "failed to list containers",
             skipped |-> {}, removed |-> << >> ] }
         \cup UNION { EvictRuns(containers, skipped,
                                EvictVictims(containers, skipped, minutes, now)) :
                      skipped \in SUBSET { c \in containers :
                                             HasPrefix(c.name, AgentPrefix) } }

ContainerNames(containers) == { c.name : c \in containers }

\* The end of an invocation with an error.
Failed(i, events, err) ==
    [ i EXCEPT !.pc = "done", !.events = @ \o events, !.err = err ]

\* A plausible slip: a failed eviction ends the invocation.
AfterEvictionAborts(err, cont) ==
    IF err /= "" THEN "done" ELSE IF cont THEN "continue" ELSE "find"

\* runStart after AutoRemoveOldContainers: its error is printed as a
\* warning and the function goes on to the --continue test.
AfterEviction(err, cont) == IF cont THEN "continue" ELSE "find"

\* runStart up to the --continue test: docker is checked and old containers
\* are evicted; a failure of the eviction is a warning only.
StartBegin(p, agent, dir, addDir, ports, cont) ==
    /\ inv[p].pc = "idle"
    /\ host.runs < MaxRuns
    /\ LET begun == [ InvIdle EXCEPT !.cmd = "start", !.agent = agent, !.dir = dir,
                                     !.flag = SkipPermissionFlags(agent),
                                     !.addDir = addDir, !.ports = ports, !.cont = cont ]
       IN  \/ /\ inv' = [ inv EXCEPT ![p] =
                            Failed(begun, << Event("docker --version", << >>) >>,
                                   "Docker is not available") ]
              /\ docker' = docker
           \/ \E out \in EvictOutcomes(docker.containers, host.autoRemove, host.now) :
                 /\ docker' = [ docker EXCEPT !.containers = out.containers ]
                 /\ inv' = [ inv EXCEPT ![p] =
                               [ begun EXCEPT
                                   !.pc = AfterEviction(out.err, cont),
                                   !.events = << Event("docker --version", << >>) >>
                                       \o (IF out.skipped = {} THEN << >>
                                           ELSE << Event("docker inspect failed", << >>) >>)
                                       \o [ k \in DOMAIN out.removed |->
                                               Event("docker rm -f", out.removed[k]) ]
                                       \o (IF out.err = "" THEN << >>
                                           ELSE << Event("warning", << >>) >>) ] ]
    /\ host' = [ host EXCEPT !.runs = @ + 1 ]
    /\ UNCHANGED pure

\* runStart from FindExistingContainer to the choice between resuming and
\* creating.  When docker ps fails the error is a warning and the flow goes
\* on as if nothing was found.
StartFind(p) ==
    /\ inv[p].pc = "find"
    /\ LET i     == inv[p]
           names == ContainerNames(docker.containers)
           git   == host.git[i.dir]
       IN  \E psOk \in BOOLEAN :
           \E existing \in IF psOk
                           THEN FindExistingContainer(names, i.dir, i.agent, git)
                           ELSE { << >> } :
              inv' = [ inv EXCEPT ![p] =
                         [ i EXCEPT
                             !.pc = StartRoute(existing),
                             !.listed = psOk,
                             !.names = IF psOk THEN names ELSE {},
                             !.pattern = IF psOk THEN FindPattern(i.dir, i.agent, git)
                                         ELSE << >>,
                             !.existing = existing,
                             !.git = git,
                             !.target = existing,
                             !.name = IF StartRoute(existing) = "build"
                                      THEN GenerateContainerName(i.dir, i.agent, git, host.now)
                                      ELSE << >>,
                             !.events = @ \o << Event("docker ps", << >>) >>
                                          \o (IF psOk THEN << >>
                                              ELSE << Event("warning", << >>) >>) ] ]
    /\ UNCHANGED << docker, host, pure >>

\* handleContinue: the last container is loaded from the state file; the
\* agent is taken from its name when the name tells it.
StartContinue(p) ==
    /\ inv[p].pc = "continue"
    /\ LET i      == inv[p]
           parsed == FromContainerName(host.last)
       IN  inv' = [ inv EXCEPT ![p] =
                      IF host.last = << >>
                      THEN Failed(i, << >>, "no previous container found")
                      ELSE [ i EXCEPT !.pc = "resume", !.target = host.last,
                                      !.agent = IF parsed.ok THEN parsed.agent ELSE @ ] ]
    /\ UNCHANGED << docker, host, pure >>

\* runAttach with a container name: the agent is taken from the name,
\* claude when the name tells none, and the flag is that agent's.
Attach(p, dir, containerName) ==
    /\ inv[p].pc = "idle"
    /\ host.runs < MaxRuns
    /\ LET parsed == FromContainerName(containerName)
           agent  == IF parsed.ok THEN parsed.agent ELSE AgentClaude
       IN  inv' = [ inv EXCEPT ![p] =
                      [ InvIdle EXCEPT !.pc = "resume", !.cmd = "attach", !.dir = dir,
                                       !.agent = agent, !.target = containerName,
                                       !.flag = SkipPermissionFlags(agent) ] ]
    /\ host' = [ host EXCEPT !.runs = @ + 1 ]
    /\ UNCHANGED << docker, pure >>

\* A plausible slip: the container never taken for running.
IsContainerRunningNever(c) == FALSE

\* IsContainerRunning: docker's {{.State.Running}} of the container.
IsContainerRunning(c) == c.running

\* ResumeContainer followed by AttachToContainer.
ResumeContainer(p) ==
    /\ inv[p].pc = "resume"
    /\ LET i       == inv[p]
           found   == { c \in docker.containers : c.name = i.target }
           exists  == << Event("docker inspect", i.target) >>
           running == << Event("docker inspect running", i.target) >>
           start   == << Event("docker start", i.target) >>
           attach  == << Event("docker exec", i.target) >>
           session == AttachToContainer(i.target, i.dir, i.agent, i.cont, i.flag)
       IN  IF found = {}
           THEN /\ inv' = [ inv EXCEPT ![p] = Failed(i, exists, "container does not exist") ]
                /\ docker' = docker
           ELSE \E c \in found :
                  IF IsContainerRunning(c)
                  THEN /\ inv' = [ inv EXCEPT ![p] =
                                     [ i EXCEPT !.pc = "done", !.session = session,
                                                !.events = @ \o exists \o running \o attach ] ]
                       /\ docker' = docker
                  ELSE \E startOk \in BOOLEAN :
                         IF startOk
                         THEN /\ docker' = [ docker EXCEPT !.containers =
                                               (@ \ { c }) \cup { [ c EXCEPT !.running = TRUE ] } ]
                              /\ inv' = [ inv EXCEPT ![p] =
                                            [ i EXCEPT !.pc = "done", !.session = session,
                                                       !.events = @ \o exists \o running
                                                                    \o start \o attach ] ]
                         ELSE /\ docker' = docker
                              /\ inv' = [ inv EXCEPT ![p] =
                                            Failed(i, exists \o running \o start,
                                                   "failed to start container") ]
    /\ UNCHANGED << host, pure >>

\* CreateContainer, first part: the languages are detected and the image is
\* built, or taken from docker when it is there.
CreateBuild(p) ==
    /\ inv[p].pc = "build"
    /\ LET i == inv[p]
       IN  \E languages \in DetectProjectLanguages(i.dir, host.files) :
           \E idOk, buildOk \in BOOLEAN :
              LET built == BuildDockerImage(languages, docker.images, idOk, buildOk)
              IN  /\ ImageName(languages) \in docker.images => idOk /\ buildOk
                  /\ ~idOk => buildOk
                  /\ docker' = [ docker EXCEPT
                                  !.images = built.images,
                                  !.baked = IF built.images = docker.images THEN @
                                            ELSE @ \cup { Baked(built.image,
                                                     CreateDockerfile(i.user, languages)) } ]
                  /\ inv' = [ inv EXCEPT ![p] =
                                IF built.err /= ""
                                THEN Failed([ i EXCEPT !.languages = languages ],
                                            built.events, built.err)
                                ELSE [ i EXCEPT !.pc = "mounts",
                                                !.languages = languages,
                                                !.image = built.image,
                                                !.events = @ \o built.events ] ]
    /\ UNCHANGED << host, pure >>

\* BuildDockerImage step by step, as another process can come between the
\* steps.  First step: docker image inspect, then id -u and id -g.
BuildInspect(p) ==
    /\ inv[p].pc = "build"
    /\ LET i == inv[p]
       IN  \E languages \in DetectProjectLanguages(i.dir, host.files), idOk \in BOOLEAN :
              LET imageName == ImageName(languages)
                  inspect   == << Event("docker image inspect", imageName) >>
                  j         == [ i EXCEPT !.languages = languages ]
              IN  inv' = [ inv EXCEPT ![p] =
                             IF imageName \in docker.images
                             THEN [ j EXCEPT !.pc = "mounts", !.image = imageName,
                                             !.events = @ \o inspect ]
                             ELSE IF ~idOk
                             THEN Failed(j, inspect, "failed to get host UID")
                             ELSE [ j EXCEPT !.pc = "write", !.events = @ \o inspect ] ]
    /\ UNCHANGED << docker, host, pure >>

\* CreateDockerfile: the recipe is written to the one path every
\* invocation uses, over what is there.
BuildWrite(p) ==
    /\ inv[p].pc = "write"
    /\ LET i == inv[p]
       IN  \E writeOk \in BOOLEAN :
              IF writeOk
              THEN /\ host' = [ host EXCEPT
                                  !.dockerfile = CreateDockerfile(i.user, i.languages) ]
                   /\ inv' = [ inv EXCEPT ![p] =
                                 [ i EXCEPT !.pc = "docker build",
                                            !.events = @ \o << Event("write", DockerfilePath) >> ] ]
              ELSE /\ host' = host
                   /\ inv' = [ inv EXCEPT ![p] =
                                 Failed(i, << >>, "failed to write Dockerfile") ]
    /\ UNCHANGED << docker, pure >>

\* docker build -t imageName -f path: the image is baked from what the
\* path holds when the build reads it, and the build fails when the file
\* is gone.
BuildRun(p) ==
    /\ inv[p].pc = "docker build"
    /\ LET i         == inv[p]
           imageName == ImageName(i.languages)
           build     == << Event("docker build", imageName) >>
       IN  \E buildOk \in BOOLEAN :
              IF buildOk /\ host.dockerfile /= NoFile
              THEN /\ docker' = [ docker EXCEPT
                                    !.images = @ \cup { imageName },
                                    !.baked = { b \in @ : b.image /= imageName }
                                                \cup { Baked(imageName, host.dockerfile) } ]
                   /\ inv' = [ inv EXCEPT ![p] =
                                 [ i EXCEPT !.pc = "remove", !.image = imageName,
                                            !.events = @ \o build ] ]
              ELSE /\ docker' = docker
                   /\ inv' = [ inv EXCEPT ![p] =
                                 [ i EXCEPT !.pc = "remove", !.err = "Docker build failed",
                                            !.events = @ \o build ] ]
    /\ UNCHANGED << host, pure >>

\* The deferred os.Remove of the path, as BuildDockerImage returns.
BuildRemove(p) ==
    /\ inv[p].pc = "remove"
    /\ host' = [ host EXCEPT !.dockerfile = NoFile ]
    /\ inv' = [ inv EXCEPT ![p] =
                  [ inv[p] EXCEPT !.pc = IF inv[p].err = "" THEN "mounts" ELSE "done",
                                  !.events = @ \o << Event("remove", DockerfilePath) >> ] ]
    /\ UNCHANGED << docker, pure >>


\* CreateContainer, second part: the -v arguments.  Each os.CreateTemp of
\* the env-file loop can fail.
CreateMounts(p) ==
    /\ inv[p].pc = "mounts"
    /\ LET i == inv[p]
       IN  \E tempOk \in [ DOMAIN host.envFiles -> BOOLEAN ] :
              LET made == ComposeMounts(i.dir, i.addDir, host.envFiles, host.files,
                                        tempOk, Cardinality(host.temps))
              IN  /\ \A k \in DOMAIN host.envFiles :
                        PathJoin(i.dir, host.envFiles[k]) \notin host.files => tempOk[k]
                  /\ host' = [ host EXCEPT !.temps = @ \cup made.temps ]
                  /\ inv' = [ inv EXCEPT ![p] =
                                [ i EXCEPT !.pc = "ports",
                                           !.mounts = made.mounts,
                                           !.events = @ \o made.events ] ]
    /\ UNCHANGED << docker, pure >>

\* The ports findAvailablePort can return; the empty one when it fails.
FreePortAnswers == { << >>, << "4", "9", "1", "5", "2" >> }

\* The invocation after the port loop has given args.
AfterPorts(i, args) ==
    IF args.err /= ""
    THEN Failed([ i EXCEPT !.publish = args.publish ], args.events, args.err)
    ELSE [ i EXCEPT !.pc = "run", !.publish = args.publish,
                    !.events = @ \o args.events ]

\* CreateContainer, third part: the port loop.  findAvailablePort is
\* called, and can fail, for each bare port that is busy.
CreatePorts(p) ==
    /\ inv[p].pc = "ports"
    /\ \E freePort \in [ DOMAIN inv[p].ports -> FreePortAnswers ] :
          /\ \A k \in DOMAIN inv[p].ports :
                Len(PortProbes(inv[p].ports[k], host.busy)) < 2 => freePort[k] = << >>
          /\ inv' = [ inv EXCEPT ![p] =
                        AfterPorts(inv[p], PortArgs(inv[p].ports, host.busy, freePort)) ]
    /\ UNCHANGED << docker, host, pure >>

\* CreateContainer, last part: docker run, which fails on a name docker
\* already has and can fail for reasons of its own; then the agent
\* configuration is copied, the run command saved and the session attached.
CreateRun(p) ==
    /\ inv[p].pc = "run"
    /\ LET i   == inv[p]
           run == << Event("docker run", i.name) >>
       IN  \E runOk \in BOOLEAN :
              IF runOk /\ i.name \notin ContainerNames(docker.containers)
              THEN /\ docker' = [ docker EXCEPT !.containers = @ \cup
                                    { [ name |-> i.name, running |-> TRUE,
                                        created |-> host.now, dir |-> i.dir,
                                        mounts |-> i.mounts, publish |-> i.publish,
                                        image |-> i.image, agent |-> i.agent,
                                        branch |-> GetCurrentBranch(i.git) ] } ]
                   /\ inv' = [ inv EXCEPT ![p] =
                                 [ i EXCEPT !.pc = "done",
                                            !.session = AttachToContainer(i.name, i.dir,
                                                            i.agent, FALSE, i.flag),
                                            !.events = @ \o run
                                               \o << Event("docker cp", i.name),
                                                     Event("save run command", i.name),
                                                     Event("docker exec", i.name) >> ] ]
              ELSE /\ docker' = docker
                   /\ inv' = [ inv EXCEPT ![p] =
                                 Failed(i, run, "failed to create container") ]
    /\ UNCHANGED << host, pure >>

\* The marker CleanupContainers looks for in a name.
DirMarker(dir) == << "-" >> \o Sanitize(Base(dir)) \o << "-" >>

\* A plausible slip: running containers passed over.
CleanupVictimsStoppedOnly(containers, dir) ==
    { c \in containers :
        /\ HasPrefix(c.name, AgentPrefix)
        /\ Contains(c.name, DirMarker(dir))
        /\ ~c.running }

\* The containers CleanupContainers runs docker rm -f on.
CleanupVictims(containers, dir) ==
    { c \in containers :
        HasPrefix(c.name, AgentPrefix) /\ Contains(c.name, DirMarker(dir)) }

\* What a call of CleanupContainers can do: docker ps can fail; the
\* containers are removed in the order of the listing and the first
\* docker rm -f that fails ends the call.
CleanupOutcomes(containers, dir) ==
    { [ containers |-> containers, err |-> "failed to list containers",
        skipped |-> {}, removed |-> << >> ] }
    \cup EvictRuns(containers, {}, CleanupVictims(containers, dir))

\* runCleanup: CleanupContainers in the current directory, and then, when it
\* has returned no error, the last-container state cleared.
Cleanup(p, dir) ==
    /\ inv[p].pc = "idle"
    /\ host.runs < MaxRuns
    /\ \E out \in CleanupOutcomes(docker.containers, dir) :
          /\ docker' = [ docker EXCEPT !.containers = out.containers ]
          /\ inv' = [ inv EXCEPT ![p] =
                        [ InvIdle EXCEPT
                            !.pc = "done", !.cmd = "cleanup", !.dir = dir,
                            !.err = out.err,
                            !.events = << Event("docker ps", << >>) >>
                                \o [ k \in DOMAIN out.removed |->
                                       Event("docker rm -f", out.removed[k]) ] ] ]
          /\ host' = [ host EXCEPT !.runs = @ + 1,
                                   !.last = IF out.err = "" THEN << >> ELSE @ ]
    /\ UNCHANGED pure


\* The invocation returns.
Finish(p) ==
    /\ inv[p].pc = "done"
    /\ inv' = [ inv EXCEPT ![p] = InvIdle ]
    /\ UNCHANGED << docker, host, pure >>

\* Time passes.
Tick ==
    /\ host.now < StartClock + MaxSeconds
    /\ host' = [ host EXCEPT !.now = @ + 1 ]
    /\ UNCHANGED << docker, inv, pure >>

\* The user checks out another branch in a directory.
Checkout(dir, git) ==
    /\ host.git[dir] /= git
    /\ host' = [ host EXCEPT !.git[dir] = git ]
    /\ UNCHANGED << docker, inv, pure >>

\* A container's main process ends, or the user stops the container.
ContainerStops(name) ==
    /\ \E c \in docker.containers :
          /\ c.name = name
          /\ c.running
          /\ docker' = [ docker EXCEPT !.containers =
                           (@ \ { c }) \cup { [ c EXCEPT !.running = FALSE ] } ]
    /\ UNCHANGED << host, inv, pure >>

\* What the start flow is given.
StartAgents == { AgentClaude }

AppDir == << "/", "w", "/", "a", "p", "p" >>

OtherAppDir == << "/", "v", "/", "a", "p", "p" >>

StartDirs == { AppDir, OtherAppDir }

StartGit == { GitSays(<< "m", "a", "i", "n" >>), GitSays(<< "m", "a", "i", "n", "-", "x" >>) }

StartPorts == { << >> }

\* The auto_remove_minutes of the settings: off, or one minute.
AutoRemoveChoices == { 0, 1 }

\* The first two of the default env files.
EnvFiles == << << ".", "e", "n", "v" >>, << ".", "e", "n", "v", ".", "l", "o", "c", "a", "l" >> >>

Init ==
    /\ PureIdle
    /\ docker = DockerIdle
    /\ \E minutes \in AutoRemoveChoices :
          host = [ HostIdle EXCEPT
                     !.files = { PathJoin(AppDir, << "g", "o", ".", "m", "o", "d" >>) },
                     !.envFiles = EnvFiles,
                     !.git = [ d \in StartDirs |-> GitSays(<< "m", "a", "i", "n" >>) ],
                     !.now = StartClock,
                     !.autoRemove = minutes ]
    /\ inv = [ p \in Procs |-> InvIdle ]

Next ==
    \/ \E agent \in StartAgents, dir \in StartDirs, ports \in StartPorts, cont \in BOOLEAN :
          StartBegin("p1", agent, dir, << >>, ports, cont)
    \/ StartFind("p1")
    \/ StartContinue("p1")
    \/ ResumeContainer("p1")
    \/ CreateBuild("p1")
    \/ CreateMounts("p1")
    \/ CreatePorts("p1")
    \/ CreateRun("p1")
    \/ Finish("p1")
    \/ Tick
    \/ \E git \in StartGit : Checkout(AppDir, git)
    \/ \E c \in docker.containers : ContainerStops(c.name)

Spec == Init /\ [][Next]_vars

(***************************************************************************)
(* SpecCreate: one call of CreateContainer on every workspace, port list   *)
(* and additional directory of a bounded set                               *)
(***************************************************************************)

\* The longest port list.
MaxPorts == 2

CreatePortChoices == { << "8", "0", "8", "0" >>, << "3", "0", "0", "0", ":", "8", "0" >>, << "a", "b", "c" >>, << "0", ":", "8", "0" >> }

PortLists == UNION { [ 1..k -> CreatePortChoices ] : k \in 0..MaxPorts }

ExtraDir == << "/", "e", "x", "t", "r", "a" >>

CreateAddDirs == { << >>, ExtraDir, AppDir }

\* The files a workspace may hold.
WorkspaceFiles ==
    { PathJoin(AppDir, EnvFiles[1]), PathJoin(AppDir, EnvFiles[2]),
      PathJoin(AppDir, PackageJSON), PathJoin(AppDir, << "g", "o", ".", "m", "o", "d" >>) }

CreateInit ==
    /\ PureIdle
    /\ \E files \in SUBSET WorkspaceFiles, busy \in SUBSET { << "8", "0", "8", "0" >> },
          envFiles \in { << >>, EnvFiles }, cached \in BOOLEAN,
          ports \in PortLists, addDir \in CreateAddDirs :
          /\ host = [ HostIdle EXCEPT
                        !.files = files, !.busy = busy, !.envFiles = envFiles,
                        !.git = [ d \in { AppDir } |-> GitSays(<< "m", "a", "i", "n" >>) ],
                        !.now = StartClock, !.runs = 1 ]
          /\ docker = IF cached THEN CachedImage(AppDir, files, UserAlice) ELSE DockerIdle
          /\ inv = [ p \in Procs |->
                       IF p = "p1"
                       THEN [ InvIdle EXCEPT
                                !.pc = "build", !.agent = AgentClaude, !.dir = AppDir,
                                !.addDir = addDir, !.ports = ports,
                                !.git = GitSays(<< "m", "a", "i", "n" >>),
                                !.name = GenerateContainerName(AppDir, AgentClaude,
                                                               GitSays(<< "m", "a", "i", "n" >>), StartClock) ]
                       ELSE InvIdle ]

CreateNext ==
    \/ CreateBuild("p1")
    \/ CreateMounts("p1")
    \/ CreatePorts("p1")
    \/ CreateRun("p1")

SpecCreate == CreateInit /\ [][CreateNext]_vars

(***************************************************************************)
(* Properties of the start flow                                            *)
(***************************************************************************)

Ops(events) == { events[k].op : k \in DOMAIN events }

\* The operations of an image build and of a container creation.
BuildOrCreateOps == { "docker image inspect", "write", "docker build", "docker run" }

\* C1: in a start without --continue, once FindExistingContainer has
\* returned a container, the invocation goes to ResumeContainer with that
\* container and to nothing else: it inspects no image, builds none and runs
\* no container, and when it ends without error it has attached to the
\* container found.
ExistingIsResumed ==
    \A p \in Procs :
        LET i == inv[p]
        IN  (~i.cont /\ i.existing /= << >>) =>
                /\ i.pc \in { "resume", "done" }
                /\ i.target = i.existing
                /\ Ops(i.events) \cap BuildOrCreateOps = {}
                /\ \A k \in DOMAIN i.events :
                      i.events[k].op \in { "docker inspect", "docker start", "docker exec" }
                          => i.events[k].arg = i.existing
                /\ (i.pc = "done" /\ i.err = "") =>
                      i.events[Len(i.events)] = Event("docker exec", i.existing)

\* An existing container, stopped in the meantime, found, started again and
\* attached to.
ExistingIsResumedWitness ==
    \E p \in Procs :
        /\ inv[p].pc = "done"
        /\ ~inv[p].cont
        /\ inv[p].existing /= << >>
        /\ inv[p].err = ""
        /\ "docker start" \in Ops(inv[p].events)
        /\ inv[p].events[Len(inv[p].events)] = Event("docker exec", inv[p].existing)

\* The number a name ends with; every name of the flow ends with a second
\* of the clock.
Timestamp(name) == DecimalValue(LastPart(name), 0, StartClock + MaxSeconds)

\* C2: of the names that start with the pattern FindExistingContainer
\* returns one whose trailing timestamp is numerically the greatest, and the
\* empty name when there is none.
FindExistingNewest ==
    \A p \in Procs :
        LET i        == inv[p]
            matching == Matching(i.names, i.pattern)
        IN  (i.listed /\ i.pc \in { "resume", "build" }) =>
                IF matching = {} THEN i.existing = << >>
                ELSE /\ i.existing \in matching
                     /\ \A n \in matching : Timestamp(n) <= Timestamp(i.existing)

\* The start invocation of p has found a container to reuse.
Reusing(p) ==
    /\ inv[p].cmd = "start"
    /\ ~inv[p].cont
    /\ inv[p].pc = "resume"
    /\ inv[p].existing /= << >>

\* C26: the container FindExistingContainer returns was created for the
\* agent of the call, for a directory with the sanitized basename of the
\* directory of the call, and on the branch git names in it.
FindReturnsOwnIdentity ==
    \A p \in Procs :
        Reusing(p) =>
            \E c \in docker.containers :
                /\ c.name = inv[p].existing
                /\ c.agent = inv[p].agent
                /\ Sanitize(Base(c.dir)) = Sanitize(Base(inv[p].dir))
                /\ c.branch = GetCurrentBranch(inv[p].git)

\* C27: the container a start invocation reuses has the directory of the
\* invocation as its read-write workspace mount.
ReuseKeepsWorkspace ==
    \A p \in Procs :
        Reusing(p) =>
            \E c \in docker.containers :
                /\ c.name = inv[p].existing
                /\ c.mounts[1] = [ src |-> inv[p].dir, dst |-> inv[p].dir, mode |-> "rw" ]

(***************************************************************************)
(* Properties of --continue                                                *)
(***************************************************************************)

\* The names of the containers created last of those docker holds.
LastCreated(containers) ==
    { c.name : c \in { d \in containers :
                           \A e \in containers : e.created <= d.created } }

\* C15: with no container ever removed (no eviction configured), once a
\* start invocation has created a container a --continue invocation goes on
\* to resume the container created last, and it reports "no previous
\* container found" only when docker holds no container created before.
ContinueResumesLastCreated ==
    \A p \in Procs :
        (inv[p].cmd = "start" /\ inv[p].cont /\ host.autoRemove <= 0) =>
            /\ inv[p].pc = "resume" =>
                  inv[p].target \in LastCreated(docker.containers)
            /\ inv[p].err = "no previous container found" =>
                  docker.containers = {}

(***************************************************************************)
(* Properties of CreateContainer                                           *)
(***************************************************************************)

\* C3: every container created has, for every env file of the settings
\* that exists in its workspace, a read-only mount of a temporary file made
\* by the tool, not of the env file, onto the env file's path.
EnvFilesMasked ==
    \A c \in docker.containers :
        \A k \in DOMAIN host.envFiles :
            LET envPath == PathJoin(c.dir, host.envFiles[k])
            IN  envPath \in host.files =>
                    \E m \in DOMAIN c.mounts :
                        /\ c.mounts[m].mode = "ro"
                        /\ c.mounts[m].dst = envPath
                        /\ c.mounts[m].src \in host.temps
                        /\ c.mounts[m].src /= envPath

HasMalformedPort(ports) == \E k \in DOMAIN ports : ~validatePortMapping(ports[k])

\* C4: with a malformed entry anywhere in the port list CreateContainer
\* never reaches docker run, creates no container of its name, and ends
\* with an error.
MalformedPortStopsCreate ==
    \A p \in Procs :
        LET i == inv[p]
        IN  HasMalformedPort(i.ports) =>
                /\ i.pc /= "run"
                /\ "docker run" \notin Ops(i.events)
                /\ i.name \notin ContainerNames(docker.containers)
                /\ i.pc = "done" => i.err /= ""

\* A list whose first entry is well-formed and whose second is not, turned
\* down by the port loop after the image was there.
MalformedPortWitness ==
    \E p \in Procs :
        /\ inv[p].pc = "done"
        /\ Len(inv[p].ports) = 2
        /\ validatePortMapping(inv[p].ports[1])
        /\ ~validatePortMapping(inv[p].ports[2])
        /\ inv[p].err = "invalid port mapping"
        /\ inv[p].image /= << >>
        /\ docker.containers = {}
\* C17: while an entry of the port list is malformed, so that the list has
\* not passed validation, CreateContainer has built no image, created no
\* temporary file for an env overlay and probed no host port.
PortsValidatedFirst ==
    \A p \in Procs :
        LET i == inv[p]
        IN  HasMalformedPort(i.ports) =>
                /\ Ops(i.events) \cap { "docker build", "CreateTemp", "listen" } = {}
                /\ host.temps = {}

\* The entry names a host port.
NamesHostPort(portSpec) == \E j \in DOMAIN portSpec : portSpec[j] = ":"

\* The -p arguments a bare container port may end as when it is busy on the
\* host: a port the system assigned, or the bare port.
BusyPortChoices(portSpec) ==
    { q \o << ":" >> \o portSpec : q \in FreePortAnswers \ { << >> } } \cup { portSpec }

\* The sockets opened, in order, for the entries before entry k + 1.
RECURSIVE ListenedUpTo(_, _, _)
ListenedUpTo(ports, busy, k) ==
    IF k = 0 THEN << >>
    ELSE ListenedUpTo(ports, busy, k - 1)
           \o (IF NamesHostPort(ports[k]) THEN << >>
               ELSE IF ports[k] \in busy THEN << ports[k], << "0" >> >>
               ELSE << ports[k] >>)

\* The ports the invocation has listened on, in order.
Listened(events) ==
    LET probes == SelectSeq(events, LAMBDA e : e.op = "listen")
    IN  [ k \in DOMAIN probes |-> probes[k].arg ]

\* C18: once the port loop of CreateContainer is over, every entry it got
\* through is published so: an entry that names a host port as it is, with
\* no probe; a bare port P that is free on the host as P:P after the one
\* probe of P; a bare port that is busy, after the probe of P and then the
\* probe of a system-assigned port, as that port:P, or as P alone.  When the
\* loop ended without error it got through every entry.
PortFallbackOrder ==
    \A p \in Procs :
        LET i == inv[p]
        IN  i.pc \in { "run", "done" } =>
                /\ i.err = "" => Len(i.publish) = Len(i.ports)
                /\ Len(i.publish) <= Len(i.ports)
                /\ \A k \in DOMAIN i.publish :
                      IF NamesHostPort(i.ports[k]) THEN i.publish[k] = i.ports[k]
                      ELSE IF i.ports[k] \notin host.busy
                      THEN i.publish[k] = i.ports[k] \o << ":" >> \o i.ports[k]
                      ELSE i.publish[k] \in BusyPortChoices(i.ports[k])
                /\ Listened(i.events) = ListenedUpTo(i.ports, host.busy, Len(i.publish))

\* Port 8080 is busy: the bare 8080 is published on the port the system
\* assigned, the mapping 3000:80 as it is, and docker run is next.
PortFallbackWitness ==
    /\ inv["p1"].pc = "run"
    /\ << "8", "0", "8", "0" >> \in host.busy
    /\ inv["p1"].ports = << << "8", "0", "8", "0" >>, << "3", "0", "0", "0", ":", "8", "0" >> >>
    /\ inv["p1"].publish = << << "4", "9", "1", "5", "2", ":", "8", "0", "8", "0" >>, << "3", "0", "0", "0", ":", "8", "0" >> >>

\* The -v arguments of the invocation of p are composed.
MountsComposed(p) ==
    \/ inv[p].pc \in { "ports", "run" }
    \/ inv[p].pc = "done" /\ inv[p].image /= << >>

\* The place of a path among the env files of the settings; 0 when it is
\* none of them.
EnvFileIndex(dir, path) ==
    LET at == { e \in DOMAIN host.envFiles : PathJoin(dir, host.envFiles[e]) = path }
    IN  IF at = {} THEN 0 ELSE CHOOSE e \in at : TRUE

\* C19: the mounts CreateContainer composes are, in this order: the
\* workspace onto itself read-write; the node_modules volume, there exactly
\* when the workspace holds package.json; read-only overlays of temporary
\* files onto env files that exist in the workspace, in the order of the
\* settings; the additional directory read-only, there exactly when one was
\* given.
MountOrder ==
    \A p \in Procs :
        MountsComposed(p) =>
            LET i     == inv[p]
                n     == Len(i.mounts)
                node  == (i.dir \o << "/", "p", "a", "c", "k", "a", "g", "e", ".", "j", "s", "o", "n" >>) \in host.files
                extra == i.addDir /= << >>
                a     == IF node THEN 3 ELSE 2
                b     == IF extra THEN n - 1 ELSE n
            IN  /\ n >= 1
                /\ i.mounts[1] = [ src |-> i.dir, dst |-> i.dir, mode |-> "rw" ]
                /\ node => /\ n >= 2
                           /\ i.mounts[2] = [ src |-> << >>,
                                              dst |-> i.dir \o << "/", "n", "o", "d", "e", "_", "m", "o", "d", "u", "l", "e", "s" >>,
                                              mode |-> "anon" ]
                /\ b >= a - 1
                /\ extra => i.mounts[n] = [ src |-> i.addDir, dst |-> i.addDir,
                                            mode |-> "ro" ]
                /\ \A k \in a..b :
                      /\ i.mounts[k].mode = "ro"
                      /\ i.mounts[k].src \in host.temps
                      /\ i.mounts[k].dst \in host.files
                      /\ EnvFileIndex(i.dir, i.mounts[k].dst) > 0
                /\ \A k, l \in a..b :
                      k < l => EnvFileIndex(i.dir, i.mounts[k].dst)
                                 < EnvFileIndex(i.dir, i.mounts[l].dst)

\* A run specification with all four kinds of mount: the workspace, the
\* node_modules volume, the overlays of .env and .env.local, and /extra.
MountOrderWitness ==
    /\ inv["p1"].pc = "done"
    /\ inv["p1"].err = ""
    /\ \E c \in docker.containers :
          /\ c.name = inv["p1"].name
          /\ Len(c.mounts) = 5
          /\ c.mounts = inv["p1"].mounts
          /\ c.mounts[2].mode = "anon"
          /\ c.mounts[3].dst = PathJoin(AppDir, EnvFiles[1])
          /\ c.mounts[4].dst = PathJoin(AppDir, EnvFiles[2])
          /\ c.mounts[5].src = ExtraDir

\* C20: in the mounts CreateContainer composes no read-only mount of the
\* additional directory has the path of the workspace.
ExtraDirNotWorkspace ==
    \A p \in Procs :
        MountsComposed(p) =>
            \A k \in DOMAIN inv[p].mounts :
                inv[p].mounts[k].mode = "ro" => inv[p].mounts[k].src /= inv[p].dir

(***************************************************************************)
(* SpecBuild: BuildDockerImage called twice, by two invocations one after  *)
(* the other, in one workspace; no image is removed                        *)
(***************************************************************************)

\* The marker files the workspace of SpecBuild may hold.
BuildMarkers ==
    { PathJoin(AppDir, f) : f \in { << "C", "a", "r", "g", "o", ".", "t", "o", "m", "l" >>, << "p", "a", "c", "k", "a", "g", "e", ".", "j", "s", "o", "n" >>, << "g", "o", ".", "m", "o", "d" >>,
                                   << "r", "e", "q", "u", "i", "r", "e", "m", "e", "n", "t", "s", ".", "t", "x", "t" >>, << "p", "y", "p", "r", "o", "j", "e", "c", "t", ".", "t", "o", "m", "l" >> } }

\* An invocation that has come to CreateContainer.
AtBuild(dir) ==
    [ InvIdle EXCEPT !.pc = "build", !.agent = AgentClaude, !.dir = dir,
                     !.git = GitSays(<< "m", "a", "i", "n" >>),
                     !.name = GenerateContainerName(dir, AgentClaude,
                                                    GitSays(<< "m", "a", "i", "n" >>), StartClock) ]

BuildInit ==
    /\ PureIdle
    /\ \E files \in SUBSET BuildMarkers, cached \in BOOLEAN :
          /\ host = [ HostIdle EXCEPT
                        !.files = files,
                        !.git = [ d \in { AppDir } |-> GitSays(<< "m", "a", "i", "n" >>) ],
                        !.now = StartClock, !.runs = 2 ]
          /\ docker = IF cached THEN CachedImage(AppDir, files, UserAlice) ELSE DockerIdle
    /\ \E user \in [ Procs -> Users ] :
          inv = [ p \in Procs |-> [ AtBuild(AppDir) EXCEPT !.user = user[p] ] ]

\* The second call begins when the first has returned.
BuildNext ==
    \/ CreateBuild("p1")
    \/ inv["p1"].pc /= "build" /\ CreateBuild("p2")

SpecBuild == BuildInit /\ [][BuildNext]_vars

\* How many times op was run.
CountOp(events, op) == Cardinality({ k \in DOMAIN events : events[k].op = op })

BothCallsReturned == inv["p1"].pc /= "build" /\ inv["p2"].pc /= "build"

\* What the first call found: no image under the tag.
ImageWasAbsent == ~(inv["p1"].err = "" /\ CountOp(inv["p1"].events, "docker build") = 0)

\* C11: when the first call has returned an image, the second call with
\* the same language set, in whatever order, returns the same reference
\* without an error and runs no docker build; the two calls together have
\* run docker build exactly once when the image was not there before them.
SecondCallUsesCache ==
    (BothCallsReturned /\ inv["p1"].err = "") =>
        /\ inv["p2"].err = ""
        /\ inv["p2"].image = inv["p1"].image
        /\ CountOp(inv["p2"].events, "docker build") = 0
        /\ ImageWasAbsent =>
              CountOp(inv["p1"].events, "docker build")
                  + CountOp(inv["p2"].events, "docker build") = 1

\* The first call builds the image of three languages; the second call
\* detects them in another order and takes the image from docker.
SecondCallUsesCacheWitness ==
    /\ BothCallsReturned
    /\ inv["p1"].err = ""
    /\ Len(inv["p1"].languages) = 3
    /\ inv["p1"].languages /= inv["p2"].languages
    /\ CountOp(inv["p1"].events, "docker build") = 1
    /\ inv["p2"].image = inv["p1"].image
\* C22: two calls of DetectProjectLanguages on the same files of the same
\* directory return the same sequence: the languages with a marker file in
\* the directory, each once, in one order.
DetectionDeterministic ==
    BothCallsReturned =>
        /\ \A p \in Procs :
              /\ Range(inv[p].languages)
                   = { l \in Languages :
                         \E f \in LanguageMarkers(l) : (AppDir \o << "/" >> \o f) \in host.files }
              /\ \A k, l \in DOMAIN inv[p].languages :
                    k /= l => inv[p].languages[k] /= inv[p].languages[l]
        /\ inv["p1"].languages = inv["p2"].languages

\* C25: the image a call of BuildDockerImage has returned was baked with
\* the account of the user who made the call: name, uid and gid.
ImageProvisionedForInvoker ==
    \A p \in Procs :
        (inv[p].pc /= "build" /\ inv[p].err = "" /\ inv[p].image /= << >>) =>
            \E b \in docker.baked :
                /\ b.image = inv[p].image
                /\ b.user.name = inv[p].user.name
                /\ b.user.uid = inv[p].user.uid
                /\ b.user.gid = inv[p].user.gid

(***************************************************************************)
(* SpecEvict: the eviction at the beginning of runStart, on containers of  *)
(* every age around the cutoff                                             *)
(***************************************************************************)

\* The ages, in seconds, of the sandbox containers docker may hold: around
\* one minute, and two minutes.
EvictAges == { 59, 60, 61, 120 }

\* The auto_remove_minutes of the settings.
EvictMinutes == { -1, 0, 1, 2 }

\* A container of the given name and age as docker run leaves it.
AgedContainer(name, age, running) ==
    [ name |-> name, running |-> running, created |-> StartClock - age,
      dir |-> AppDir, mounts |-> << WorkspaceMount(AppDir) >>, publish |-> << >>,
      image |-> ImageName(<< >>), agent |-> "", branch |-> << >> ]

SandboxContainer(age, running) ==
    [ AgedContainer(GenerateContainerName(AppDir, AgentClaude, GitSays(<< "m", "a", "i", "n" >>),
                                          StartClock - age), age, running)
        EXCEPT !.agent = AgentClaude, !.branch = << "m", "a", "i", "n" >> ]

\* A container of the user's that the tool has not made, two minutes old.
ForeignContainer(running) == AgedContainer(<< "w", "e", "b", "-", "1" >>, 121, running)

\* What docker holds: each container running, stopped or not there.
EvictPools ==
    { { SandboxContainer(a, st[a] = "running") : a \in { b \in EvictAges : st[b] /= "none" } }
        \cup (IF f = "none" THEN {} ELSE { ForeignContainer(f = "running") }) :
      st \in [ EvictAges -> { "none", "running", "stopped" } ],
      f \in { "none", "running" } }

EvictInit ==
    /\ PureIdle
    /\ \E pool \in EvictPools, minutes \in EvictMinutes :
          /\ docker = [ containers |-> pool, images |-> {}, baked |-> {} ]
          /\ host = [ HostIdle EXCEPT
                        !.git = [ d \in { AppDir } |-> GitSays(<< "m", "a", "i", "n" >>) ],
                        !.now = StartClock, !.autoRemove = minutes ]
    /\ inv = [ p \in Procs |-> InvIdle ]

EvictNext == \E cont \in BOOLEAN : StartBegin("p1", AgentClaude, AppDir, << >>, << >>, cont)

SpecEvict == EvictInit /\ [][EvictNext]_vars

\* The container is a sandbox container created at or before the cutoff.
IsOld(c) ==
    /\ HasPrefix(c.name, AgentPrefix)
    /\ c.created <= host.now - host.autoRemove * SecondsPerMinute

\* The step is a call of AutoRemoveOldContainers by p.
EvictStep(p) == inv[p].pc = "idle" /\ inv'[p].pc \in { "find", "continue" }

\* C12: a call of AutoRemoveOldContainers with minutes <= 0 leaves the
\* containers as they are; with minutes > 0 it removes nothing but sandbox
\* containers created at or before now - minutes, and when none of its
\* docker commands fails it removes every one of them, running or stopped.
EvictRemovesExactlyOld ==
    [][ EvictStep("p1") =>
          /\ docker'.containers \subseteq docker.containers
          /\ host.autoRemove <= 0 => docker'.containers = docker.containers
          /\ \A c \in docker.containers \ docker'.containers :
                host.autoRemove > 0 /\ IsOld(c)
          /\ Ops(inv'["p1"].events) \cap { "warning", "docker inspect failed" } = {}
                => \A c \in docker'.containers : host.autoRemove <= 0 \/ ~IsOld(c) ]_vars

\* With one minute: the container created at the cutoff, running, has been
\* removed, the one a second younger and the foreign one are there.
EvictWitness ==
    /\ inv["p1"].pc = "find"
    /\ host.autoRemove = 1
    /\ Ops(inv["p1"].events) \cap { "warning", "docker inspect failed" } = {}
    /\ Event("docker rm -f", SandboxContainer(60, TRUE).name) \in Range(inv["p1"].events)
    /\ SandboxContainer(60, TRUE) \notin docker.containers
    /\ SandboxContainer(59, FALSE) \in docker.containers
    /\ ForeignContainer(TRUE) \in docker.containers
(***************************************************************************)
(* SpecResume: ResumeContainer on a name docker has running, has stopped,  *)
(* or does not have                                                        *)
(***************************************************************************)

ResumeInit ==
    /\ PureIdle
    /\ \E pool \in EvictPools, age \in EvictAges, cont \in BOOLEAN :
          /\ docker = [ containers |-> pool, images |-> {}, baked |-> {} ]
          /\ host = [ HostIdle EXCEPT
                        !.git = [ d \in { AppDir } |-> GitSays(<< "m", "a", "i", "n" >>) ],
                        !.now = StartClock, !.runs = 1 ]
          /\ inv = [ p \in Procs |->
                       IF p = "p1"
                       THEN [ InvIdle EXCEPT
                                !.pc = "resume", !.agent = AgentClaude, !.dir = AppDir,
                                !.cont = cont,
                                !.target = SandboxContainer(age, TRUE).name ]
                       ELSE InvIdle ]

ResumeNext == ResumeContainer("p1")

SpecResume == ResumeInit /\ [][ResumeNext]_vars

\* The step is a call of ResumeContainer by p.
ResumeStep(p) == inv[p].pc = "resume" /\ inv'[p].pc = "done"

\* The commands the step has added to the log of p.
NewOps(p) ==
    { inv'[p].events[k].op : k \in (Len(inv[p].events) + 1)..Len(inv'[p].events) }

MaxPool == 3

HyphenDir == << "/", "w", "/", "m", "y", "-", "a", "p", "p" >>

\* A directory whose sanitized basename is empty.
SymbolDir == << "/", "w", "/", "@" >>

CleanupDirs == { AppDir, HyphenDir, SymbolDir }

\* A branch named as the project.
CleanupGit == { GitSays(<< "m", "a", "i", "n" >>), GitSays(<< "a", "p", "p" >>) }

\* A container the tool has made in dir, with the name, the workspace mount
\* and the identity CreateContainer gives it.
CleanupContainer(dir, agent, git) ==
    [ AgedContainer(GenerateContainerName(dir, agent, git, StartClock), 0, FALSE)
        EXCEPT !.dir = dir, !.mounts = << WorkspaceMount(dir) >>,
               !.agent = agent, !.branch = GetCurrentBranch(git) ]

\* A container of the user's: no directory of the tool's stands behind it.
UserContainer(name) ==
    [ AgedContainer(name, 0, FALSE) EXCEPT !.dir = << >>, !.mounts = << >> ]

\* The containers docker may hold: made by the tool in one of the
\* directories, or by the user.
CleanupCandidates ==
    { CleanupContainer(d, AgentClaude, g) : d \in CleanupDirs, g \in CleanupGit }
    \cup { CleanupContainer(AppDir, AgentCursor, GitSays(<< "m", "a", "i", "n" >>)),
           UserContainer(<< "w", "e", "b", "-", "a", "p", "p", "-", "1" >>),
           UserContainer(<< "a", "g", "e", "n", "t", "-", "a", "p", "p" >>) }

CleanupNames == ContainerNames(CleanupCandidates)

CleanupPools ==
    { { [ c EXCEPT !.running = (c.name \in up) ] : c \in cs } :
        cs \in { s \in SUBSET CleanupCandidates : Cardinality(s) <= MaxPool },
        up \in SUBSET CleanupNames }

CleanupInit ==
    /\ PureIdle
    /\ \E pool \in CleanupPools :
          /\ docker = [ containers |-> pool, images |-> {}, baked |-> {} ]
          /\ host = [ HostIdle EXCEPT
                        !.git = [ d \in CleanupDirs |-> GitSays(<< "m", "a", "i", "n" >>) ],
                        !.now = StartClock ]
    /\ inv = [ p \in Procs |-> InvIdle ]

CleanupNext == \E dir \in CleanupDirs : Cleanup("p1", dir)

SpecCleanup == CleanupInit /\ [][CleanupNext]_vars

\* The token is in the name as whole segments with a hyphen before and a
\* hyphen after.
HasSegment(name, token) ==
    LET parts  == Split(name, "-")
        tparts == Split(token, "-")
    IN  \E k \in 2..(Len(parts) - Len(tparts)) :
            SubSeq(parts, k, k + Len(tparts) - 1) = tparts

CreatedFromProject(c, dir) == Sanitize(Base(c.dir)) = Sanitize(Base(dir))

\* C30: every container that a step of cleanup in dir takes away from docker
\* was created from a directory whose sanitized basename equals that of dir;
\* the containers of other projects, one whose branch segment equals the
\* token among them, are left as they were.
CleanupRemovesOnlyOwn ==
    [][ \A c \in docker.containers \ docker'.containers :
            CreatedFromProject(c, inv'["p1"].dir) ]_vars

(***************************************************************************)
(* SpecRace: two start invocations in the same directory, for the same     *)
(* agent, on the same branch, their steps interleaved                      *)
(***************************************************************************)

RaceInit ==
    /\ PureIdle
    /\ docker = DockerIdle
    /\ host = [ HostIdle EXCEPT
                  !.files = { PathJoin(AppDir, << "g", "o", ".", "m", "o", "d" >>) },
                  !.git = [ d \in StartDirs |-> GitSays(<< "m", "a", "i", "n" >>) ],
                  !.now = StartClock,
                  !.runs = MaxRuns - 2 ]
    /\ inv = [ p \in Procs |-> InvIdle ]

RaceNext ==
    \/ \E p \in Procs :
          \/ StartBegin(p, AgentClaude, AppDir, << >>, << >>, FALSE)
          \/ StartFind(p)
          \/ ResumeContainer(p)
          \/ CreateBuild(p)
          \/ CreateMounts(p)
          \/ CreatePorts(p)
          \/ CreateRun(p)
          \/ Finish(p)
    \/ Tick

SpecRace == RaceInit /\ [][RaceNext]_vars

\* The start invocation of p has created its container and returned.
HasCreated(p) ==
    /\ inv[p].cmd = "start"
    /\ inv[p].pc = "done"
    /\ inv[p].err = ""
    /\ inv[p].name /= << >>

\* The names of the sandbox key of the invocation of p begin with this.
RaceKey(p) == FindPattern(inv[p].dir, inv[p].agent, host.git[inv[p].dir])

\* The listing the invocation of p took named no container of its key.
SawNone(p) == \A n \in inv[p].names : ~HasPrefix(n, RaceKey(p))

\* C16: when two start invocations of the same key have both created a
\* container, each of them saw no container of the key in the listing it
\* took, the two containers have different names and docker holds both:
\* no step between the listing and docker run stopped either of them.
RaceBothCreate ==
    \A p, q \in Procs :
        (p /= q /\ HasCreated(p) /\ HasCreated(q) /\ RaceKey(p) = RaceKey(q)) =>
            /\ SawNone(p)
            /\ SawNone(q)
            /\ inv[p].name /= inv[q].name
            /\ { inv[p].name, inv[q].name } \subseteq
                  { n \in ContainerNames(docker.containers) : HasPrefix(n, RaceKey(p)) }

\* Both invocations listed the containers with success, saw none, and have
\* created one each: docker holds two containers of the one key.
RaceDuplicateWitness ==
    /\ HasCreated("p1")
    /\ HasCreated("p2")
    /\ inv["p1"].listed
    /\ inv["p2"].listed
    /\ RaceKey("p1") = RaceKey("p2")
    /\ Cardinality({ c \in docker.containers : HasPrefix(c.name, RaceKey("p1")) }) = 2
(***************************************************************************)
(* SpecEvictFlow: runStart from the eviction to the attached session, on   *)
(* old and young sandbox containers                                        *)
(***************************************************************************)

EvictFlowPools ==
    SUBSET { SandboxContainer(59, TRUE), SandboxContainer(61, TRUE),
             SandboxContainer(120, FALSE) }

EvictFlowInit ==
    /\ PureIdle
    /\ \E pool \in EvictFlowPools, minutes \in AutoRemoveChoices :
          /\ docker = [ containers |-> pool, images |-> {}, baked |-> {} ]
          /\ host = [ HostIdle EXCEPT
                        !.files = { PathJoin(AppDir, << "g", "o", ".", "m", "o", "d" >>) },
                        !.git = [ d \in StartDirs |-> GitSays(<< "m", "a", "i", "n" >>) ],
                        !.now = StartClock,
                        !.runs = MaxRuns - 1,
                        !.autoRemove = minutes ]
    /\ inv = [ p \in Procs |-> InvIdle ]

EvictFlowNext ==
    \/ StartBegin("p1", AgentClaude, AppDir, << >>, << >>, FALSE)
    \/ StartFind("p1")
    \/ ResumeContainer("p1")
    \/ CreateBuild("p1")
    \/ CreateMounts("p1")
    \/ CreatePorts("p1")
    \/ CreateRun("p1")

SpecEvictFlow == EvictFlowInit /\ [][EvictFlowNext]_vars

\* The eviction of the invocation ended with an error: a warning was
\* printed before the containers were listed for FindExistingContainer.
EvictionFailed(events) ==
    \E k \in DOMAIN events :
        /\ events[k].op = "warning"
        /\ \A l \in 1..k : events[l].op /= "docker ps"

\* C21: in a start invocation every removal of the eviction comes before the
\* docker run of the new container, and an invocation whose eviction failed
\* has no error from it and, when it has ended, had gone on to list the
\* containers for FindExistingContainer.
EvictionNeverAborts ==
    \A p \in Procs :
        LET i == inv[p]
        IN  i.cmd = "start" =>
                /\ \A k, l \in DOMAIN i.events :
                      (i.events[k].op = "docker run"
                         /\ (i.events[l].op = "docker rm -f"
                               \/ i.events[l].op = "docker inspect failed")) => l < k
                /\ EvictionFailed(i.events) =>
                      /\ i.err \notin { "failed to list containers",
                                        "failed to remove container" }
                      /\ i.pc = "done" => "docker ps" \in Ops(i.events)

\* The eviction removed one old container and failed on the other; the
\* invocation went on and has attached a session with no error.
EvictionWarnedWitness ==
    /\ inv["p1"].pc = "done"
    /\ inv["p1"].err = ""
    /\ EvictionFailed(inv["p1"].events)
    /\ "docker rm -f" \in Ops(inv["p1"].events)
    /\ "docker exec" \in Ops(inv["p1"].events)
(***************************************************************************)
(* SpecBranch: two start invocations in one directory, for one agent, in   *)
(* one second, the branch checked out changing between them                *)
(***************************************************************************)

\* What git names as the current branch.
BranchAnswers ==
    { GitSays(<< "m", "a", "i", "n" >>), GitSays(<< "M", "a", "i", "n" >>), GitSays(<< "f", "e", "a", "t", "/", "x" >>), GitSays(<< "f", "e", "a", "t", "x" >>),
      GitSays(<< "f", "i", "x", "_", "1" >>), GitSays(<< "f", "i", "x", "-", "1" >>), GitSays(<< "d", "e", "v" >>), GitSays(<< "u", "n", "k", "n", "o", "w", "n" >>) }

BranchInit ==
    /\ PureIdle
    /\ docker = DockerIdle
    /\ \E git \in BranchAnswers :
          host = [ HostIdle EXCEPT
                     !.git = [ d \in { AppDir } |-> git ],
                     !.now = StartClock, !.runs = 2 ]
    /\ inv = [ p \in Procs |->
                 [ InvIdle EXCEPT !.pc = "find", !.cmd = "start",
                                  !.agent = AgentClaude, !.dir = AppDir ] ]

BranchNext ==
    \/ \E p \in Procs : StartFind(p)
    \/ \E git \in BranchAnswers : Checkout(AppDir, git)

SpecBranch == BranchInit /\ [][BranchNext]_vars

\* C23: two invocations for the same directory and agent that made their
\* names in the same second, git naming different branches to them, have
\* different names.
BranchDistinguishesNames ==
    \A p, q \in Procs :
        (/\ inv[p].name /= << >>
         /\ inv[q].name /= << >>
         /\ inv[p].dir = inv[q].dir
         /\ inv[p].agent = inv[q].agent
         /\ inv[p].git.ok
         /\ inv[q].git.ok
         /\ inv[p].git.out /= inv[q].git.out) => inv[p].name /= inv[q].name
(***************************************************************************)
(* SpecSession: one invocation of start, start --continue or attach, in    *)
(* one of two directories of the same basename, docker holding containers   *)
(* of both and of two agents                                               *)
(***************************************************************************)

\* A running container made for dir and agent, age seconds ago.
SessionContainer(dir, agent, age) ==
    [ AgedContainer(GenerateContainerName(dir, agent, GitSays(<< "m", "a", "i", "n" >>), StartClock - age),
                    age, TRUE)
        EXCEPT !.dir = dir, !.mounts = << WorkspaceMount(dir) >>,
               !.agent = agent, !.branch = << "m", "a", "i", "n" >> ]

SessionPools ==
    SUBSET { SessionContainer(AppDir, AgentClaude, 1),
             SessionContainer(OtherAppDir, AgentClaude, 2),
             SessionContainer(AppDir, AgentGemini, 1) }

\* The state file last_container holds a name docker has, or nothing.
SessionInit ==
    /\ PureIdle
    /\ \E pool \in SessionPools, last \in { << >> } \cup ContainerNames(UNION SessionPools) :
          /\ last \in { << >> } \cup ContainerNames(pool)
          /\ docker = [ containers |-> pool, images |-> {}, baked |-> {} ]
          /\ host = [ HostIdle EXCEPT
                        !.files = { PathJoin(AppDir, << "g", "o", ".", "m", "o", "d" >>) },
                        !.git = [ d \in StartDirs |-> GitSays(<< "m", "a", "i", "n" >>) ],
                        !.now = StartClock,
                        !.runs = MaxRuns - 1,
                        !.last = last ]
    /\ inv = [ p \in Procs |-> InvIdle ]

SessionNext ==
    \/ \E agent \in { AgentClaude, AgentGemini }, dir \in StartDirs, cont \in BOOLEAN :
          StartBegin("p1", agent, dir, << >>, << >>, cont)
    \/ \E dir \in StartDirs, name \in ContainerNames(docker.containers) :
          Attach("p1", dir, name)
    \/ StartFind("p1")
    \/ StartContinue("p1")
    \/ ResumeContainer("p1")
    \/ CreateBuild("p1")
    \/ CreateMounts("p1")
    \/ CreatePorts("p1")
    \/ CreateRun("p1")

SpecSession == SessionInit /\ [][SessionNext]_vars

\* The directory mounted read-write as the workspace of the container.
ProjectPath(c) == c.mounts[1].src

\* C24: every session opened in a container has as working directory the
\* project path mounted in that container.
SessionInProjectDir ==
    \A p \in Procs :
        inv[p].session.container /= << >> =>
            \E c \in docker.containers :
                /\ c.name = inv[p].session.container
                /\ inv[p].session.workdir = ProjectPath(c)

ConcurrentFiles ==
    { { PathJoin(OtherAppDir, << "C", "a", "r", "g", "o", ".", "t", "o", "m", "l" >>) } \cup extra :
        extra \in SUBSET { PathJoin(AppDir, << "g", "o", ".", "m", "o", "d" >>), PathJoin(AppDir, PackageJSON) } }

ConcurrentInit ==
    /\ PureIdle
    /\ docker = DockerIdle
    /\ \E files \in ConcurrentFiles :
          host = [ HostIdle EXCEPT
                     !.files = files,
                     !.git = [ d \in StartDirs |-> GitSays(<< "m", "a", "i", "n" >>) ],
                     !.now = StartClock, !.runs = 2 ]
    /\ inv = [ p \in Procs |-> IF p = "p1" THEN AtBuild(AppDir) ELSE AtBuild(OtherAppDir) ]

ConcurrentNext ==
    \E p \in Procs :
        \/ BuildInspect(p)
        \/ BuildWrite(p)
        \/ BuildRun(p)
        \/ BuildRemove(p)

SpecConcurrentBuild == ConcurrentInit /\ [][ConcurrentNext]_vars

\* C29: every image docker holds was baked from a recipe of the languages
\* its tag names, and while an invocation is about to run docker build the
\* Dockerfile path holds the recipe this invocation wrote.
ImageBuiltFromOwnRecipe ==
    /\ \A b \in docker.baked : b.image = ImageName(b.recipe)
    /\ \A p \in Procs :
          inv[p].pc = "docker build" =>
              host.dockerfile = [ recipe |-> inv[p].languages, user |-> inv[p].user ]

====
